---- MODULE Spec2Model ----
(***************************************************************************)
(* Appointment availability and conflict-resolution engine of the          *)
(* konsuldok backend: checkDoctorAvailability, the appointment lifecycle   *)
(* operations (create / update / cancel / delete) with their validators,   *)
(* and fetchDoctorAvailabilitySlots.                                       *)
(*                                                                         *)
(* Instants are minutes since Sunday 00:00 local time of week 0 (the code  *)
(* works in milliseconds; every quantity it handles is a whole minute).    *)
(* "HH:MM" strings are sequences of character codes, compared as JS        *)
(* compares strings (lexicographically by code unit).                      *)
(***************************************************************************)
EXTENDS Integers, Sequences, FiniteSets, TLC

(***************************************************************************)
(* Bounds of the model                                                     *)
(***************************************************************************)
MaxAppointments == 2
MaxTicks == 1
MaxBlocks == 3

(***************************************************************************)
(* Program constants                                                       *)
(***************************************************************************)
defaultDurationMinutes == 30
minDurationMinutes == 5
slotIncrement == 15

REQUESTED == "Requested"
CONFIRMED == "Confirmed"
CANCELLED == "Cancelled"
COMPLETED == "Completed"
NO_SHOW == "NoShow"
AvailableAppointmentStatuses == {REQUESTED, CONFIRMED, CANCELLED, COMPLETED, NO_SHOW}

ADMIN == "Admin"
DOCTOR == "Doctor"
STAFF == "Staff"
PATIENT == "Patient"

(***************************************************************************)
(* Values standing for JS undefined / null / NaN                           *)
(***************************************************************************)
Undefined == 0 - 1
NaN == 0 - 2
NoStatus == "undefined"
NoText == ""
NoRef == "null"

(***************************************************************************)
(* JS Date arithmetic on local time, in minutes                            *)
(***************************************************************************)
MinutesPerDay == 24 * 60
getDay(t) == (t \div MinutesPerDay) % 7
getHours(t) == (t % MinutesPerDay) \div 60
getMinutes(t) == t % 60
At(day, h, m) == day * MinutesPerDay + h * 60 + m

(* String(n).padStart(2, '0') joined by ':' ; '0' is code 48, ':' is 58 *)
HHMM(h, m) == <<48 + (h \div 10), 48 + (h % 10), 58, 48 + (m \div 10), 48 + (m % 10)>>
formatToHHMM(date) == HHMM(getHours(date), getMinutes(date))

(* JS string comparison a < b *)
StrLess(a, b) ==
    \E i \in 1..(Len(b)) :
        /\ \A j \in 1..(i - 1) : j <= Len(a) /\ a[j] = b[j]
        /\ (i > Len(a) \/ a[i] < b[i])
StrLeq(a, b) == a = b \/ StrLess(a, b)

(* "HH:MM".split(':').map(Number) *)
splitHours(s) == (s[1] - 48) * 10 + (s[2] - 48)
splitMinutes(s) == (s[4] - 48) * 10 + (s[5] - 48)

(***************************************************************************)
(* Collaborators: users, patient profiles, doctor profiles                 *)
(***************************************************************************)
Users ==
    { [id |-> "uP1", role |-> PATIENT, patientProfile |-> "p1", doctorProfile |-> NoRef],
      [id |-> "uP2", role |-> PATIENT, patientProfile |-> "p2", doctorProfile |-> NoRef],
      [id |-> "uD1", role |-> DOCTOR, patientProfile |-> NoRef, doctorProfile |-> "d1"],
      [id |-> "uS", role |-> STAFF, patientProfile |-> NoRef, doctorProfile |-> NoRef],
      [id |-> "uA", role |-> ADMIN, patientProfile |-> NoRef, doctorProfile |-> NoRef] }

PatientProfiles == {"p1", "p2"}
(* profiles that exist but are soft-deleted *)
DeletedPatientProfiles == {"p0"}
PatientIds == PatientProfiles \cup DeletedPatientProfiles \cup {"pX"}
DoctorProfiles == {"d1", "d2"}
DeletedDoctorProfiles == {"d0"}
DoctorIds == DoctorProfiles \cup DeletedDoctorProfiles \cup {"dX"}

Block(d, s, e) == [dayOfWeek |-> d, startTime |-> s, endTime |-> e]

InitialSchedules ==
    [d \in DoctorProfiles |->
        IF d = "d1"
        THEN << Block(1, HHMM(22, 0), HHMM(23, 59)),
                Block(1, HHMM(10, 0), HHMM(11, 0)) >>
        ELSE << Block(1, HHMM(10, 0), HHMM(10, 30)),
                Block(1, HHMM(10, 30), HHMM(11, 0)) >>]

(***************************************************************************)
(* Request inputs                                                          *)
(***************************************************************************)
StartNow == At(1, 8, 0)
TickMinutes == 2 * 60 + 10
StartTimes == {At(1, 10, 0), At(1, 10, 30), At(1, 23, 30)}
Durations == {30, 60}
Dates == {1, 2}
User(id) == CHOOSE u \in Users : u.id = id

VARIABLES appointments, weeklySchedule, now, last, pending

vars == <<appointments, weeklySchedule, now, last, pending>>

AppointmentIds == 1..MaxAppointments
Stored == 1..Len(appointments)

Response(op, code, id, prev) ==
    [op |-> op, code |-> code, id |-> id, prev |-> prev,
     doctor |-> NoRef, date |-> Undefined, duration |-> Undefined, slots |-> <<>>,
     schedule |-> <<>>]

(***************************************************************************)
(* checkDoctorAvailability                                                 *)
(***************************************************************************)
BlockingStatuses_withCancelled == {CONFIRMED, REQUESTED, CANCELLED}

(* the statuses named by conflictQuery.status *)
BlockingStatuses == {CONFIRMED, REQUESTED}

workingBlocksForDay(schedule, dayOfWeek) ==
    SelectSeq(schedule, LAMBDA slot : slot.dayOfWeek = dayOfWeek)

isWithinScheduledBlock(schedule, requestedStartTimeDate, durationMinutes) ==
    LET requestedEndTimeDate == requestedStartTimeDate + durationMinutes
        blocks == workingBlocksForDay(schedule, getDay(requestedStartTimeDate))
        requestedStartTimeHHMM == formatToHHMM(requestedStartTimeDate)
        requestedEndTimeHHMM == formatToHHMM(requestedEndTimeDate)
    IN  \E i \in 1..Len(blocks) :
            /\ StrLeq(blocks[i].startTime, requestedStartTimeHHMM)
            /\ StrLeq(requestedEndTimeHHMM, blocks[i].endTime)

conflictQuery_touching(a, id, doctorId, startDate, endDate, excludeAppointmentId) ==
    /\ a.doctor = doctorId
    /\ a.status \in BlockingStatuses
    /\ a.isDeleted # TRUE
    /\ a.appointmentTime <= endDate
    /\ a.appointmentTime + a.durationMinutes >= startDate
    /\ (excludeAppointmentId # Undefined => id # excludeAppointmentId)

conflictQuery_countsDeleted(a, id, doctorId, startDate, endDate, excludeAppointmentId) ==
    /\ a.doctor = doctorId
    /\ a.status \in BlockingStatuses
    /\ a.appointmentTime < endDate
    /\ a.appointmentTime + a.durationMinutes > startDate
    /\ (excludeAppointmentId # Undefined => id # excludeAppointmentId)

conflictQuery_startInWindow(a, id, doctorId, startDate, endDate, excludeAppointmentId) ==
    /\ a.doctor = doctorId
    /\ a.status \in BlockingStatuses
    /\ a.isDeleted # TRUE
    /\ a.appointmentTime < endDate
    /\ a.appointmentTime >= startDate
    /\ (excludeAppointmentId # Undefined => id # excludeAppointmentId)

(* the Mongo conflictQuery, as a predicate on one stored document *)
conflictQuery(a, id, doctorId, startDate, endDate, excludeAppointmentId) ==
    /\ a.doctor = doctorId
    /\ a.status \in BlockingStatuses
    /\ a.isDeleted # TRUE
    /\ a.appointmentTime < endDate
    /\ a.appointmentTime + a.durationMinutes > startDate
    /\ (excludeAppointmentId # Undefined => id # excludeAppointmentId)

findConflicting_noExclude(store, doctorId, startDate, endDate, excludeAppointmentId) ==
    \E id \in 1..Len(store) :
        conflictQuery(store[id], id, doctorId, startDate, endDate, Undefined)

findConflicting(store, doctorId, startDate, endDate, excludeAppointmentId) ==
    \E id \in 1..Len(store) :
        conflictQuery(store[id], id, doctorId, startDate, endDate, excludeAppointmentId)

(* precondition: doctorId \in DoctorProfiles (otherwise the code throws 404) *)
checkDoctorAvailability(store, schedules, doctorId, requestedStartTimeDate, durationMinutes, excludeAppointmentId) ==
    IF ~isWithinScheduledBlock(schedules[doctorId], requestedStartTimeDate, durationMinutes)
    THEN FALSE
    ELSE ~findConflicting(store, doctorId, requestedStartTimeDate,
                          requestedStartTimeDate + durationMinutes, excludeAppointmentId)

(***************************************************************************)
(* createAppointment: validator, controller, service                       *)
(***************************************************************************)
createAppointmentValidator(body, clock) ==
    /\ body.appointmentTime # NaN
    /\ body.appointmentTime > clock
    /\ (body.durationMinutes # Undefined => body.durationMinutes >= minDurationMinutes)
    /\ "status" \notin DOMAIN body

patientProfileId_fromBody(appointmentData, requestedByUser) == appointmentData.patient

(* the patient the service books for: the caller's own profile for a Patient *)
patientProfileId(appointmentData, requestedByUser) ==
    IF requestedByUser.role = PATIENT
    THEN requestedByUser.patientProfile ELSE appointmentData.patient

confirmsOnCreate_adminOnly(requestedByUser) == requestedByUser.role = ADMIN

(* the role test that turns the initial status into Confirmed *)
confirmsOnCreate(requestedByUser) == requestedByUser.role \in {STAFF, ADMIN}

(* the document built by new Appointment({...}) *)
newAppointmentDocument(appointmentData, requestedByUser) ==
    LET staffOrAdmin == confirmsOnCreate(requestedByUser)
    IN  [patient |-> patientProfileId(appointmentData, requestedByUser),
         doctor |-> appointmentData.doctor,
         appointmentTime |-> appointmentData.appointmentTime,
         durationMinutes |-> IF appointmentData.durationMinutes = Undefined
                             THEN defaultDurationMinutes ELSE appointmentData.durationMinutes,
         status |-> IF staffOrAdmin THEN CONFIRMED ELSE REQUESTED,
         scheduledByStaff |-> IF staffOrAdmin THEN requestedByUser.id ELSE NoRef,
         cancellationReason |-> NoText,
         completionNotes |-> NoText,
         isDeleted |-> FALSE,
         updatedBy |-> requestedByUser.id]

(* the service up to and including the availability check: the error code, or 0 *)
createAppointmentChecks(store, schedules, clock, appointmentData, requestedByUser) ==
    LET doc == newAppointmentDocument(appointmentData, requestedByUser)
    IN  IF requestedByUser.role = PATIENT /\ requestedByUser.patientProfile = NoRef THEN 400
        ELSE IF requestedByUser.role # PATIENT /\ appointmentData.patient = NoRef THEN 400
        ELSE IF doc.patient \notin PatientProfiles THEN 404
        ELSE IF appointmentData.doctor \notin DoctorProfiles THEN 404
        ELSE IF appointmentData.appointmentTime = NaN \/ appointmentData.appointmentTime <= clock
             THEN 400
        ELSE IF ~checkDoctorAvailability(store, schedules, appointmentData.doctor,
                                         appointmentData.appointmentTime, doc.durationMinutes,
                                         Undefined)
             THEN 409
        ELSE 0

uniqueIndexViolation_doctorTime(store, doc) ==
    \E id \in 1..Len(store) :
        store[id].doctor = doc.doctor /\ store[id].appointmentTime = doc.appointmentTime

(* the appointment collection has no unique index: an insert is never rejected *)
uniqueIndexViolation(store, doc) == FALSE

(* newAppointment.save(): <<code, store>> *)
saveNewAppointment(store, doc) ==
    IF uniqueIndexViolation(store, doc) THEN <<500, store>>
    ELSE <<201, Append(store, doc)>>

(* result of the service: <<code, store>> *)
createAppointmentService(store, schedules, clock, appointmentData, requestedByUser) ==
    LET code == createAppointmentChecks(store, schedules, clock, appointmentData, requestedByUser)
    IN  IF code # 0 THEN <<code, store>>
        ELSE saveNewAppointment(store, newAppointmentDocument(appointmentData, requestedByUser))

createAppointmentGate_noValidator(clock, body, user) ==
    IF user.role \notin {PATIENT, STAFF, ADMIN} THEN 403
    ELSE IF user.role = PATIENT /\ user.patientProfile = NoRef THEN 400
    ELSE IF user.role # PATIENT /\ body.patient = NoRef THEN 400
    ELSE 0

(* authorize, validator and controller in front of the service: the error code, or 0 *)
createAppointmentGate(clock, body, user) ==
    IF user.role \notin {PATIENT, STAFF, ADMIN} THEN 403
    ELSE IF ~createAppointmentValidator(body, clock) THEN 400
    ELSE IF user.role = PATIENT /\ user.patientProfile = NoRef THEN 400
    ELSE IF user.role # PATIENT /\ body.patient = NoRef THEN 400
    ELSE 0

controllerData(body, user) ==
    IF user.role = PATIENT THEN [body EXCEPT !.patient = user.patientProfile] ELSE body

createAppointmentRoute(store, schedules, clock, body, user) ==
    LET gate == createAppointmentGate(clock, body, user)
    IN  IF gate # 0 THEN <<gate, store>>
        ELSE createAppointmentService(store, schedules, clock, controllerData(body, user), user)

CreateAppointment(body, user) ==
    /\ pending = <<>>
    /\ \E r \in {createAppointmentRoute(appointments, weeklySchedule, now, body, user)} :
           /\ Len(r[2]) <= MaxAppointments
           /\ appointments' = r[2]
           /\ last' = Response("create", r[1], IF r[1] = 201 THEN Len(r[2]) ELSE 0, Undefined)
    /\ UNCHANGED <<weeklySchedule, now, pending>>

(* createAppointment as two steps of one request: everything up to the     *)
(* awaited availability check, then the awaited save                       *)
CreateCheck(body, user) ==
    /\ LET gate == createAppointmentGate(now, body, user)
           code == IF gate # 0 THEN gate
                   ELSE createAppointmentChecks(appointments, weeklySchedule, now,
                                                controllerData(body, user), user)
       IN  /\ code = 0 => Len(appointments) + Len(pending) < MaxAppointments
           /\ IF code # 0
              THEN /\ last' = Response("create", code, 0, Undefined)
                   /\ UNCHANGED pending
              ELSE /\ pending' = Append(pending,
                                        newAppointmentDocument(controllerData(body, user), user))
                   /\ UNCHANGED last
    /\ UNCHANGED <<appointments, weeklySchedule, now>>

CreateSave(i) ==
    /\ i \in 1..Len(pending)
    /\ \E r \in {saveNewAppointment(appointments, pending[i])} :
           /\ appointments' = r[2]
           /\ last' = Response("create", r[1], IF r[1] = 201 THEN Len(r[2]) ELSE 0, Undefined)
    /\ pending' = SubSeq(pending, 1, i - 1) \o SubSeq(pending, i + 1, Len(pending))
    /\ UNCHANGED <<weeklySchedule, now>>

(***************************************************************************)
(* updateAppointment: validator, controller, service                       *)
(***************************************************************************)
UpdateBody(status, appointmentTime, durationMinutes, completionNotes, cancellationReason) ==
    [status |-> status, appointmentTime |-> appointmentTime, durationMinutes |-> durationMinutes,
     completionNotes |-> completionNotes, cancellationReason |-> cancellationReason]

updateAppointmentValidator(body, clock) ==
    /\ (body.appointmentTime # Undefined =>
            body.appointmentTime # NaN /\ body.appointmentTime > clock)
    /\ (body.durationMinutes # Undefined => body.durationMinutes >= minDurationMinutes)
    /\ (body.status # NoStatus => body.status \in AvailableAppointmentStatuses)
    /\ "patient" \notin DOMAIN body
    /\ "doctor" \notin DOMAIN body

confirmCompleteForbidden_confirmOnly(status, updatedByUser) ==
    /\ status = CONFIRMED
    /\ updatedByUser.role \notin {DOCTOR, STAFF, ADMIN}

(* the role gate on confirming or completing *)
confirmCompleteForbidden(status, updatedByUser) ==
    /\ status \in {CONFIRMED, COMPLETED}
    /\ updatedByUser.role \notin {DOCTOR, STAFF, ADMIN}

writesCompletionNotes_anyStatus(updateData) ==
    updateData.completionNotes # NoText

writesCompletionNotes(updateData) ==
    updateData.completionNotes # NoText /\ updateData.status = COMPLETED

(* result of the service: <<code, store>> *)
updateAppointmentService(store, schedules, clock, appointmentId, updateData, updatedByUser) ==
    LET status == updateData.status
        appointmentTime == updateData.appointmentTime
        durationMinutes == updateData.durationMinutes
        found == appointmentId \in 1..Len(store) /\ store[appointmentId].isDeleted # TRUE
        appointment == store[appointmentId]
        newDuration == IF durationMinutes # Undefined /\ durationMinutes # 0
                       THEN durationMinutes ELSE appointment.durationMinutes
        rescheduled ==
            IF appointmentTime # Undefined
            THEN [appointment EXCEPT
                    !.appointmentTime = appointmentTime,
                    !.durationMinutes = newDuration]
            ELSE appointment
        withStatus ==
            IF status # NoStatus THEN [rescheduled EXCEPT !.status = status] ELSE rescheduled
        withNotes ==
            IF writesCompletionNotes(updateData)
            THEN [withStatus EXCEPT !.completionNotes = updateData.completionNotes]
            ELSE withStatus
        withReason ==
            IF updateData.cancellationReason # NoText /\ status = CANCELLED
            THEN [withNotes EXCEPT !.cancellationReason = updateData.cancellationReason]
            ELSE withNotes
        saved == [withReason EXCEPT !.updatedBy = updatedByUser.id]
    IN  IF ~found THEN <<404, store>>
        ELSE IF confirmCompleteForbidden(status, updatedByUser) THEN <<403, store>>
        ELSE IF appointmentTime # Undefined /\ (appointmentTime = NaN \/ appointmentTime <= clock)
             THEN <<400, store>>
        ELSE IF appointmentTime # Undefined
                /\ ~checkDoctorAvailability(store, schedules, appointment.doctor,
                                            appointmentTime, newDuration, appointmentId)
             THEN <<409, store>>
        ELSE <<200, [store EXCEPT ![appointmentId] = saved]>>

updateAppointmentRoute_statusBeforeCheck(store, schedules, clock, appointmentId, body, user) ==
    IF ~updateAppointmentValidator(body, clock) THEN <<400, store>>
    ELSE LET r == updateAppointmentService(store, schedules, clock, appointmentId, body, user)
         IN  IF r[1] = 409 /\ body.status # NoStatus
             THEN <<409, [store EXCEPT ![appointmentId].status = body.status]>>
             ELSE r

updateAppointmentRoute_assignsDoctor(store, schedules, clock, appointmentId, body, user) ==
    LET r == updateAppointmentService(store, schedules, clock, appointmentId, body, user)
    IN  IF r[1] = 200 /\ "doctor" \in DOMAIN body
        THEN <<200, [r[2] EXCEPT ![appointmentId].doctor = body.doctor]>>
        ELSE r

updateAppointmentRoute_durationAlone(store, schedules, clock, appointmentId, body, user) ==
    LET r == IF ~updateAppointmentValidator(body, clock) THEN <<400, store>>
             ELSE updateAppointmentService(store, schedules, clock, appointmentId, body, user)
    IN  IF r[1] = 200 /\ body.appointmentTime = Undefined /\ body.durationMinutes # Undefined
        THEN <<200, [r[2] EXCEPT ![appointmentId].durationMinutes = body.durationMinutes]>>
        ELSE r

updateAppointmentRoute(store, schedules, clock, appointmentId, body, user) ==
    IF ~updateAppointmentValidator(body, clock) THEN <<400, store>>
    ELSE updateAppointmentService(store, schedules, clock, appointmentId, body, user)

UpdateAppointment(appointmentId, body, user) ==
    /\ \E r \in {updateAppointmentRoute(appointments, weeklySchedule, now, appointmentId, body, user)} :
           /\ appointments' = r[2]
           /\ last' = IF r[1] = 200
                      THEN Response("update", r[1], appointmentId,
                                    appointments[appointmentId].appointmentTime)
                      ELSE Response("update", r[1], 0, Undefined)
    /\ UNCHANGED <<weeklySchedule, now, pending>>

(***************************************************************************)
(* cancelAppointment: route validator, controller, service                 *)
(***************************************************************************)
canCancel_anyPatient(appointment, cancelledByUser) ==
    \/ cancelledByUser.role = PATIENT /\ appointment.status \in {REQUESTED, CONFIRMED}
    \/ cancelledByUser.role = DOCTOR /\ appointment.doctor = cancelledByUser.doctorProfile
    \/ cancelledByUser.role \in {STAFF, ADMIN}

canCancel_anyDoctor(appointment, cancelledByUser) ==
    \/ /\ cancelledByUser.role = PATIENT
       /\ appointment.patient = cancelledByUser.patientProfile
       /\ appointment.status \in {REQUESTED, CONFIRMED}
    \/ cancelledByUser.role \in {DOCTOR, STAFF, ADMIN}

(* the ownership and role test of cancelAppointment *)
canCancel(appointment, cancelledByUser) ==
    LET isPatientOwner == cancelledByUser.role = PATIENT
                          /\ appointment.patient = cancelledByUser.patientProfile
        isDoctorOwner == cancelledByUser.role = DOCTOR
                         /\ appointment.doctor = cancelledByUser.doctorProfile
        isStaffOrAdmin == cancelledByUser.role \in {STAFF, ADMIN}
    IN  IF isPatientOwner /\ appointment.status \in {REQUESTED, CONFIRMED}
        THEN TRUE
        ELSE isDoctorOwner \/ isStaffOrAdmin

cancelAppointmentService(store, appointmentId, reason, cancelledByUser) ==
    LET found == appointmentId \in 1..Len(store) /\ store[appointmentId].isDeleted # TRUE
        appointment == store[appointmentId]
        saved == [appointment EXCEPT !.status = CANCELLED,
                                     !.cancellationReason = reason,
                                     !.updatedBy = cancelledByUser.id]
    IN  IF ~found THEN <<404, store>>
        ELSE IF appointment.status \in {CANCELLED, COMPLETED} THEN <<400, store>>
        ELSE IF ~canCancel(appointment, cancelledByUser) THEN <<403, store>>
        ELSE <<200, [store EXCEPT ![appointmentId] = saved]>>

cancelAppointmentRoute_marksNoShow(store, appointmentId, reason, user) ==
    IF reason = NoText THEN <<400, store>>
    ELSE LET r == cancelAppointmentService(store, appointmentId, reason, user)
         IN  IF r[1] = 200 THEN <<200, [r[2] EXCEPT ![appointmentId].status = NO_SHOW]>> ELSE r

cancelAppointmentRoute(store, appointmentId, reason, user) ==
    IF reason = NoText THEN <<400, store>>
    ELSE cancelAppointmentService(store, appointmentId, reason, user)

CancelAppointment(appointmentId, reason, user) ==
    /\ \E r \in {cancelAppointmentRoute(appointments, appointmentId, reason, user)} :
           /\ appointments' = r[2]
           /\ last' = Response("cancel", r[1], IF r[1] = 200 THEN appointmentId ELSE 0, Undefined)
    /\ UNCHANGED <<weeklySchedule, now, pending>>

(***************************************************************************)
(* deleteAppointment: route authorization, service, softDelete             *)
(***************************************************************************)
softDelete(appointment, userId) ==
    IF ~appointment.isDeleted
    THEN [appointment EXCEPT !.isDeleted = TRUE,
                             !.updatedBy = IF @ = NoRef THEN userId ELSE @]
    ELSE appointment

deleteAppointmentService(store, appointmentId, deletedByUser) ==
    LET found == appointmentId \in 1..Len(store) /\ store[appointmentId].isDeleted # TRUE
    IN  IF deletedByUser.role # ADMIN THEN <<403, store>>
        ELSE IF ~found THEN <<404, store>>
        ELSE <<200, [store EXCEPT ![appointmentId] = softDelete(@, deletedByUser.id)]>>

DeleteAppointment(appointmentId, user) ==
    /\ \E r \in {deleteAppointmentService(appointments, appointmentId, user)} :
           /\ appointments' = r[2]
           /\ last' = Response("delete", r[1], IF r[1] = 200 THEN appointmentId ELSE 0, Undefined)
    /\ UNCHANGED <<weeklySchedule, now, pending>>

(***************************************************************************)
(* fetchDoctorAvailabilitySlots                                            *)
(***************************************************************************)
RECURSIVE blockSlots_noEndCheck(_, _, _, _, _, _)
blockSlots_noEndCheck(store, doctorId, currentSlotTime, blockEndTime, durationMinutes, pushed) ==
    IF ~(currentSlotTime < blockEndTime) THEN pushed
    ELSE blockSlots_noEndCheck(store, doctorId, currentSlotTime + slotIncrement, blockEndTime,
                               durationMinutes,
                               IF ~findConflicting(store, doctorId, currentSlotTime,
                                                   currentSlotTime + durationMinutes, Undefined)
                               THEN Append(pushed, formatToHHMM(currentSlotTime))
                               ELSE pushed)

RECURSIVE blockSlots(_, _, _, _, _, _)
(* the while loop over one work block; yields the stamps it pushes *)
blockSlots(store, doctorId, currentSlotTime, blockEndTime, durationMinutes, pushed) ==
    IF ~(currentSlotTime < blockEndTime) THEN pushed
    ELSE LET potentialSlotStart == currentSlotTime
             potentialSlotEnd == potentialSlotStart + durationMinutes
         IN  IF potentialSlotEnd > blockEndTime THEN pushed
             ELSE blockSlots(store, doctorId, currentSlotTime + slotIncrement, blockEndTime,
                             durationMinutes,
                             IF ~findConflicting(store, doctorId, potentialSlotStart,
                                                 potentialSlotEnd, Undefined)
                             THEN Append(pushed, formatToHHMM(potentialSlotStart))
                             ELSE pushed)

RECURSIVE allBlockSlots(_, _, _, _, _, _)
allBlockSlots(store, doctorId, workingSlots, requestedDate, durationMinutes, pushed) ==
    IF workingSlots = <<>> THEN pushed
    ELSE LET workBlock == Head(workingSlots)
             currentSlotTime == requestedDate + splitHours(workBlock.startTime) * 60
                                              + splitMinutes(workBlock.startTime)
             blockEndTime == requestedDate + splitHours(workBlock.endTime) * 60
                                           + splitMinutes(workBlock.endTime)
         IN  allBlockSlots(store, doctorId, Tail(workingSlots), requestedDate, durationMinutes,
                           blockSlots(store, doctorId, currentSlotTime, blockEndTime,
                                      durationMinutes, pushed))

(* [...new Set(list)].sort() *)
RECURSIVE uniqueInOrder(_, _)
uniqueInOrder(list, acc) ==
    IF list = <<>> THEN acc
    ELSE uniqueInOrder(Tail(list),
                       IF \E i \in 1..Len(acc) : acc[i] = Head(list)
                       THEN acc ELSE Append(acc, Head(list)))
sortedUnique_unsorted(list) == uniqueInOrder(list, <<>>)
sortedUnique(list) == SortSeq(uniqueInOrder(list, <<>>), StrLess)

(* precondition: doctorId \in DoctorProfiles; dateDay is the day number of dateString *)
fetchDoctorAvailabilitySlots(store, schedules, doctorId, dateDay, durationMinutes) ==
    LET requestedDate == dateDay * MinutesPerDay
        workingSlots == workingBlocksForDay(schedules[doctorId], getDay(requestedDate))
    IN  IF Len(workingSlots) = 0 THEN <<>>
        ELSE sortedUnique(allBlockSlots(store, doctorId, workingSlots, requestedDate,
                                        durationMinutes, <<>>))

FetchSlots(doctorId, dateDay, durationMinutes) ==
    /\ last' = IF doctorId \notin DoctorProfiles
               THEN [Response("slots", 404, 0, Undefined) EXCEPT
                        !.doctor = doctorId, !.date = dateDay, !.duration = durationMinutes]
               ELSE [Response("slots", 200, 0, Undefined) EXCEPT
                        !.doctor = doctorId, !.date = dateDay, !.duration = durationMinutes,
                        !.slots = fetchDoctorAvailabilitySlots(appointments, weeklySchedule,
                                                               doctorId, dateDay, durationMinutes)]
    /\ UNCHANGED <<appointments, weeklySchedule, now, pending>>

Tick ==
    /\ now < StartNow + MaxTicks * TickMinutes
    /\ now' = now + TickMinutes
    /\ UNCHANGED <<appointments, weeklySchedule, last, pending>>

Init ==
    /\ appointments = <<>>
    /\ weeklySchedule = InitialSchedules
    /\ now = StartNow
    /\ last = Response("none", 0, 0, Undefined)
    /\ pending = <<>>

(***************************************************************************)
(* Specification of booking, rescheduling, status updates and deletion by  *)
(* an administrator.                                                       *)
(***************************************************************************)
SchedUsers == {User("uA")}

CreateBodies ==
    [patient : {"p2"}, doctor : DoctorProfiles,
     appointmentTime : StartTimes, durationMinutes : {Undefined, 60}]

UpdateBodies ==
    { UpdateBody(st, Undefined, Undefined, NoText, NoText) : st \in AvailableAppointmentStatuses }
    \cup { UpdateBody(NoStatus, t, d, NoText, NoText) : t \in StartTimes, d \in {Undefined, 60} }

Next ==
    \/ \E body \in CreateBodies, user \in SchedUsers : CreateAppointment(body, user)
    \/ \E id \in AppointmentIds, body \in UpdateBodies, user \in SchedUsers :
            UpdateAppointment(id, body, user)
    \/ \E id \in AppointmentIds, user \in SchedUsers : DeleteAppointment(id, user)

Spec == Init /\ [][Next]_vars

(***************************************************************************)
(* Specification of slot listing: a patient and an administrator book, the *)
(* administrator cancels and deletes, anyone lists the free slots.         *)
(***************************************************************************)
SlotUsers == {User("uP1"), User("uA")}

NextSlots ==
    \/ \E body \in CreateBodies, user \in SlotUsers : CreateAppointment(body, user)
    \/ \E id \in AppointmentIds : CancelAppointment(id, "r", User("uA"))
    \/ \E id \in AppointmentIds : DeleteAppointment(id, User("uA"))
    \/ \E doctorId \in DoctorProfiles, dateDay \in Dates, d \in Durations :
            FetchSlots(doctorId, dateDay, d)

SpecSlots == Init /\ [][NextSlots]_vars

(***************************************************************************)
(* Specification of concurrent booking: each createAppointment request is  *)
(* two steps, the awaited availability check and the awaited save, and the *)
(* steps of different requests interleave; the clock advances.             *)
(***************************************************************************)
RaceUsers == {User("uP1"), User("uA")}

NextRace ==
    \/ \E body \in CreateBodies, user \in RaceUsers : CreateCheck(body, user)
    \/ \E i \in AppointmentIds : CreateSave(i)
    \/ Tick

SpecRace == Init /\ [][NextRace]_vars

(***************************************************************************)
(* Notions the properties are stated in                                    *)
(***************************************************************************)
WindowMinutes(start, duration) == start..(start + duration - 1)
(* two windows share a minute iff one of them starts inside the other *)
Overlaps(s1, d1, s2, d2) == s2 \in WindowMinutes(s1, d1) \/ s1 \in WindowMinutes(s2, d2)
Blocking(a) == a.status \in {REQUESTED, CONFIRMED} /\ ~a.isDeleted
TimeOfDay(t) == t % MinutesPerDay
DayOf(t) == t \div MinutesPerDay
BlockStart(block) == splitHours(block.startTime) * 60 + splitMinutes(block.startTime)
BlockEnd(block) == splitHours(block.endTime) * 60 + splitMinutes(block.endTime)

(* the window [start, start + duration) lies inside one working block of its day *)
InsideWorkingBlock(schedule, start, duration) ==
    \E i \in 1..Len(schedule) :
        /\ schedule[i].dayOfWeek = DayOf(start) % 7
        /\ BlockStart(schedule[i]) <= TimeOfDay(start)
        /\ TimeOfDay(start) + duration <= BlockEnd(schedule[i])

(* some blocking appointment of the doctor, other than `except`, shares a minute with the window *)
BlockedBy(doctorId, start, duration, except) ==
    \E id \in Stored :
        /\ id # except
        /\ appointments[id].doctor = doctorId
        /\ Blocking(appointments[id])
        /\ Overlaps(start, duration,
                    appointments[id].appointmentTime, appointments[id].durationMinutes)

ProbeTimes == StartTimes \cup {At(1, 10, 15), At(1, 10, 45), At(2, 10, 0)}
ProbeDurations == {15, 30, 60}

(***************************************************************************)
(* C1: under one-at-a-time execution no two non-cancelled, non-deleted     *)
(* appointments of the same doctor have overlapping half-open intervals.   *)
(***************************************************************************)
C1_NoOverlapAmongNonCancelled ==
    \A i \in Stored, j \in Stored :
        ( /\ i < j
          /\ appointments[i].doctor = appointments[j].doctor
          /\ ~appointments[i].isDeleted /\ ~appointments[j].isDeleted
          /\ appointments[i].status # CANCELLED /\ appointments[j].status # CANCELLED )
        => ~Overlaps(appointments[i].appointmentTime, appointments[i].durationMinutes,
                     appointments[j].appointmentTime, appointments[j].durationMinutes)

(***************************************************************************)
(* C3: for a window inside a working block, checkDoctorAvailability        *)
(* returns false iff a non-deleted Requested/Confirmed appointment of the  *)
(* doctor, other than the excluded one, shares a minute with the window;   *)
(* touching windows and other statuses never conflict.                     *)
(***************************************************************************)
C3_ConflictIffOverlap ==
    \A doctorId \in DoctorProfiles, s1 \in ProbeTimes, d1 \in ProbeDurations,
       exclude \in {Undefined} \cup AppointmentIds :
        InsideWorkingBlock(weeklySchedule[doctorId], s1, d1) =>
            ( ~checkDoctorAvailability(appointments, weeklySchedule, doctorId, s1, d1, exclude)
              <=> BlockedBy(doctorId, s1, d1, exclude) )

(* a create was refused for a conflict while, for the same doctor, a blocking
   appointment touches the window 10:30-11:00, a non-blocking one overlaps it,
   and the window is reported available *)
C3_Witness ==
    /\ last.op = "create" /\ last.code = 409
    /\ \E i \in Stored, j \in Stored :
        /\ appointments[i].doctor = "d1" /\ Blocking(appointments[i])
        /\ appointments[i].appointmentTime = At(1, 10, 0) /\ appointments[i].durationMinutes = 30
        /\ appointments[j].doctor = "d1" /\ ~appointments[j].isDeleted
        /\ appointments[j].status \in {CANCELLED, COMPLETED, NO_SHOW}
        /\ appointments[j].appointmentTime = At(1, 10, 30)
    /\ checkDoctorAvailability(appointments, weeklySchedule, "d1", At(1, 10, 30), 30, Undefined)
    /\ ~checkDoctorAvailability(appointments, weeklySchedule, "d1", At(1, 10, 15), 30, Undefined)

(***************************************************************************)
(* C4: the schedule-containment step accepts a window starting at          *)
(* time-of-day t on day-of-week w with duration d iff one block B of day w *)
(* has B.startTime <= t and t + d <= B.endTime.                            *)
(***************************************************************************)
C4_ContainmentIffInsideBlock ==
    \A doctorId \in DoctorProfiles, t \in ProbeTimes, d \in ProbeDurations :
        isWithinScheduledBlock(weeklySchedule[doctorId], t, d)
            <=> InsideWorkingBlock(weeklySchedule[doctorId], t, d)

(***************************************************************************)
(* C5: no appointment whose end instant falls on a later calendar day than *)
(* its start is ever accepted; stated on the stored appointments, for the  *)
(* windows that end strictly after midnight.                               *)
(***************************************************************************)
C5_NoAppointmentCrossesMidnight ==
    \A id \in Stored :
        DayOf(appointments[id].appointmentTime + appointments[id].durationMinutes - 1)
            = DayOf(appointments[id].appointmentTime)

(***************************************************************************)
(* C6: a reschedule of a blocking appointment A to a future window inside  *)
(* a working block that overlaps no blocking appointment of the doctor     *)
(* other than A succeeds and commits the new time.                         *)
(***************************************************************************)
C6_Pre(id, body, user) ==
    /\ id \in Stored
    /\ Blocking(appointments[id])
    /\ body.appointmentTime # Undefined
    /\ body.appointmentTime > now
    /\ (body.status \in {CONFIRMED, COMPLETED} => user.role \in {DOCTOR, STAFF, ADMIN})
    /\ LET duration == IF body.durationMinutes = Undefined
                       THEN appointments[id].durationMinutes ELSE body.durationMinutes
       IN  /\ InsideWorkingBlock(weeklySchedule[appointments[id].doctor],
                                 body.appointmentTime, duration)
           /\ ~BlockedBy(appointments[id].doctor, body.appointmentTime, duration, id)

C6_RescheduleExcludesSelf ==
    [][ \A id \in AppointmentIds, body \in UpdateBodies, user \in SchedUsers :
            (last'.op = "update" /\ C6_Pre(id, body, user) /\ UpdateAppointment(id, body, user))
            => ( /\ last'.code = 200
                 /\ appointments'[id].appointmentTime = body.appointmentTime ) ]_vars

(* a blocking appointment was moved to a window that contains its previous start *)
C6_Witness ==
    /\ last.op = "update" /\ last.code = 200
    /\ last.id \in Stored
    /\ Blocking(appointments[last.id])
    /\ appointments[last.id].appointmentTime < last.prev
    /\ last.prev < appointments[last.id].appointmentTime + appointments[last.id].durationMinutes

(***************************************************************************)
(* C9: once an appointment is Cancelled or Completed, no later operation   *)
(* changes its status, appointmentTime or durationMinutes.                 *)
(***************************************************************************)
C9_TerminalStatesFrozen ==
    [][ \A id \in Stored :
            appointments[id].status \in {CANCELLED, COMPLETED}
            => ( /\ appointments'[id].status = appointments[id].status
                 /\ appointments'[id].appointmentTime = appointments[id].appointmentTime
                 /\ appointments'[id].durationMinutes = appointments[id].durationMinutes ) ]_vars

(***************************************************************************)
(* C10: every status change is one of Requested->Confirmed,                *)
(* Confirmed->Completed, Requested->Cancelled, Confirmed->Cancelled,       *)
(* Confirmed->NoShow.                                                      *)
(***************************************************************************)
AllowedTransitions ==
    { <<REQUESTED, CONFIRMED>>, <<CONFIRMED, COMPLETED>>, <<REQUESTED, CANCELLED>>,
      <<CONFIRMED, CANCELLED>>, <<CONFIRMED, NO_SHOW>> }

C10_OnlyAllowedTransitions ==
    [][ \A id \in Stored :
            appointments'[id].status # appointments[id].status
            => <<appointments[id].status, appointments'[id].status>> \in AllowedTransitions ]_vars

(***************************************************************************)
(* C2: when the availability checks of two overlapping createAppointment   *)
(* requests both complete before either save, both saves succeed: a save   *)
(* always persists its appointment, whatever the store then holds.         *)
(***************************************************************************)
C2_SaveNeverRejected ==
    [][ \A i \in 1..Len(pending) :
            CreateSave(i)
            => ( /\ last'.code = 201
                 /\ Len(appointments') = Len(appointments) + 1
                 /\ appointments'[Len(appointments')] = pending[i]
                 /\ pending[i].status \in {REQUESTED, CONFIRMED} ) ]_vars

(* both requests were saved: two overlapping blocking appointments of one doctor *)
C2_Witness ==
    /\ pending = <<>>
    /\ last.op = "create" /\ last.code = 201
    /\ \E i \in Stored, j \in Stored :
        /\ i < j
        /\ appointments[i].doctor = appointments[j].doctor
        /\ Blocking(appointments[i]) /\ Blocking(appointments[j])
        /\ Overlaps(appointments[i].appointmentTime, appointments[i].durationMinutes,
                    appointments[j].appointmentTime, appointments[j].durationMinutes)

(***************************************************************************)
(* C7: every stamp returned by fetchDoctorAvailabilitySlots, passed with   *)
(* the same date and duration to checkDoctorAvailability while the         *)
(* appointments and the schedule are unchanged, is reported available, and *)
(* its window overlaps no Requested/Confirmed appointment of the doctor.   *)
(***************************************************************************)
StampInstant(dateDay, stamp) ==
    dateDay * MinutesPerDay + splitHours(stamp) * 60 + splitMinutes(stamp)

C7_ListedSlotsAreAvailable ==
    (last.op = "slots" /\ last.code = 200) =>
        \A k \in 1..Len(last.slots) :
            /\ checkDoctorAvailability(appointments, weeklySchedule, last.doctor,
                                       StampInstant(last.date, last.slots[k]),
                                       last.duration, Undefined)
            /\ ~BlockedBy(last.doctor, StampInstant(last.date, last.slots[k]), last.duration, 0)

(* a listing returned slots while a blocking appointment of the doctor sat on that date *)
C7_Witness ==
    /\ last.op = "slots" /\ last.code = 200
    /\ Len(last.slots) > 0
    /\ \E id \in Stored :
        /\ appointments[id].doctor = last.doctor
        /\ Blocking(appointments[id])
        /\ DayOf(appointments[id].appointmentTime) = last.date

(***************************************************************************)
(* C8: fetchDoctorAvailabilitySlots returns, duplicate-free and ascending, *)
(* exactly the stamps of the candidates block.startTime + 15k over the     *)
(* working blocks of the date's day with start + duration <= block.endTime *)
(* that no Requested/Confirmed appointment overlaps; one block 09:00-12:00 *)
(* with no appointments and duration 30 yields 09:00, 09:15, ..., 11:30.   *)
(***************************************************************************)
ExpectedCandidates(doctorId, dateDay, duration) ==
    UNION { { dateDay * MinutesPerDay + BlockStart(weeklySchedule[doctorId][i]) + 15 * k :
                k \in { n \in 0..95 :
                          BlockStart(weeklySchedule[doctorId][i]) + 15 * n + duration
                              <= BlockEnd(weeklySchedule[doctorId][i]) } }
            : i \in { b \in 1..Len(weeklySchedule[doctorId]) :
                        weeklySchedule[doctorId][b].dayOfWeek = dateDay % 7 } }

ExpectedStamps(doctorId, dateDay, duration) ==
    { HHMM(TimeOfDay(c) \div 60, TimeOfDay(c) % 60) :
        c \in { x \in ExpectedCandidates(doctorId, dateDay, duration) :
                  ~BlockedBy(doctorId, x, duration, 0) } }

ScenarioA ==
    fetchDoctorAvailabilitySlots(<<>>, [d \in {"d1"} |-> << Block(1, HHMM(9, 0), HHMM(12, 0)) >>],
                                 "d1", 1, 30)
        = << HHMM(9, 0), HHMM(9, 15), HHMM(9, 30), HHMM(9, 45), HHMM(10, 0), HHMM(10, 15),
             HHMM(10, 30), HHMM(10, 45), HHMM(11, 0), HHMM(11, 15), HHMM(11, 30) >>

C8_SlotsAreExactlyTheFreeCandidates ==
    (last.op = "slots" /\ last.code = 200) =>
        /\ \A k \in 1..(Len(last.slots) - 1) : StrLess(last.slots[k], last.slots[k + 1])
        /\ { last.slots[k] : k \in 1..Len(last.slots) }
               = ExpectedStamps(last.doctor, last.date, last.duration)
        /\ ScenarioA

(* a listing over two working blocks, with a candidate left out for a blocking appointment *)
C8_Witness ==
    /\ last.op = "slots" /\ last.code = 200
    /\ last.doctor = "d1"
    /\ \E k \in 1..Len(last.slots) : last.slots[k] = HHMM(22, 0)
    /\ \E k \in 1..Len(last.slots) : last.slots[k] = HHMM(10, 30)
    /\ \A k \in 1..Len(last.slots) : last.slots[k] # HHMM(10, 0)

(***************************************************************************)
(* Specification of cancellation: a patient and an administrator book one  *)
(* Monday slot with either doctor, the administrator marks appointments    *)
(* Completed or NoShow, and every user tries to cancel.                    *)
(***************************************************************************)
CancelCreateBodies ==
    [patient : {"p2"}, doctor : DoctorProfiles,
     appointmentTime : {At(1, 10, 0)}, durationMinutes : {Undefined}]

CancelUpdateBodies ==
    { UpdateBody(st, Undefined, Undefined, NoText, NoText) : st \in {COMPLETED, NO_SHOW} }

NextCancel ==
    \/ \E body \in CancelCreateBodies, user \in {User("uP1"), User("uA")} :
            CreateAppointment(body, user)
    \/ \E id \in AppointmentIds, body \in CancelUpdateBodies :
            UpdateAppointment(id, body, User("uA"))
    \/ \E id \in AppointmentIds, user \in Users : CancelAppointment(id, "r", user)

SpecCancel == Init /\ [][NextCancel]_vars

Terminal(a) == a.status \in {CANCELLED, COMPLETED}
OtherPatients(a, user) == user.role = PATIENT /\ a.patient # user.patientProfile
Present(id) == id \in Stored /\ ~appointments[id].isDeleted

(***************************************************************************)
(* C11 (as stated): a cancel call by a Patient on an appointment of        *)
(* another patient fails with 403, a cancel call on a Cancelled or         *)
(* Completed appointment fails with 400, and in both cases the stored      *)
(* appointments are unchanged.                                             *)
(***************************************************************************)
C11_CancelRejections ==
    [][ \A id \in AppointmentIds, user \in Users :
            (last'.op = "cancel" /\ Present(id) /\ CancelAppointment(id, "r", user))
            => ( /\ OtherPatients(appointments[id], user)
                        => (last'.code = 403 /\ appointments' = appointments)
                 /\ Terminal(appointments[id])
                        => (last'.code = 400 /\ appointments' = appointments) ) ]_vars

(***************************************************************************)
(* C11 (amended): a cancel call on a Cancelled or Completed appointment    *)
(* fails with 400 whoever calls; a cancel call by a Patient on another     *)
(* patient's appointment that is neither Cancelled nor Completed fails     *)
(* with 403; in both cases the stored appointments are unchanged.          *)
(***************************************************************************)
C11_CancelRejectionsStatusFirst ==
    [][ \A id \in AppointmentIds, user \in Users :
            (last'.op = "cancel" /\ Present(id) /\ CancelAppointment(id, "r", user))
            => ( /\ (OtherPatients(appointments[id], user) /\ ~Terminal(appointments[id]))
                        => (last'.code = 403 /\ appointments' = appointments)
                 /\ Terminal(appointments[id])
                        => (last'.code = 400 /\ appointments' = appointments) ) ]_vars

(* a cancel call was refused with 403 while the only appointment is one of *)
(* doctor d1 in a cancellable status with no updater but its creator: the  *)
(* refused caller is a patient who does not own it                         *)
C11_Witness ==
    /\ last.op = "cancel" /\ last.code = 403
    /\ Len(appointments) = 1
    /\ appointments[1].doctor = "d1"
    /\ appointments[1].patient = "p2"
    /\ appointments[1].status = CONFIRMED
    /\ appointments[1].cancellationReason = NoText
    /\ appointments[1].updatedBy = "uA"

(***************************************************************************)
(* C12 (as stated): a cancel call by a Doctor, Staff or Admin caller on an *)
(* appointment that is neither Cancelled nor Completed succeeds whichever  *)
(* doctor and patient it belongs to; a cancel call by a Patient succeeds   *)
(* only on the caller's own appointment in status Requested or Confirmed.  *)
(***************************************************************************)
C12_WhoMayCancel ==
    [][ \A id \in AppointmentIds, user \in Users :
            (last'.op = "cancel" /\ Present(id) /\ CancelAppointment(id, "r", user))
            => ( /\ (user.role \in {DOCTOR, STAFF, ADMIN} /\ ~Terminal(appointments[id]))
                        => last'.code = 200
                 /\ (user.role = PATIENT /\ last'.code = 200)
                        => ( /\ appointments[id].patient = user.patientProfile
                             /\ appointments[id].status \in {REQUESTED, CONFIRMED} ) ) ]_vars

(***************************************************************************)
(* C12 (amended): a cancel call succeeds exactly when the appointment is   *)
(* neither Cancelled nor Completed and the caller is Staff or Admin, or a  *)
(* Doctor whose doctor profile is the appointment's doctor, or a Patient   *)
(* whose patient profile is the appointment's patient while the status is  *)
(* Requested or Confirmed; a success sets the status to Cancelled.         *)
(***************************************************************************)
MayCancel(a, user) ==
    /\ ~Terminal(a)
    /\ \/ user.role \in {STAFF, ADMIN}
       \/ user.role = DOCTOR /\ a.doctor = user.doctorProfile
       \/ /\ user.role = PATIENT
          /\ a.patient = user.patientProfile
          /\ a.status \in {REQUESTED, CONFIRMED}

C12_WhoMayCancelOwnDoctor ==
    [][ \A id \in AppointmentIds, user \in Users :
            (last'.op = "cancel" /\ Present(id) /\ CancelAppointment(id, "r", user))
            => ( /\ last'.code = 200 <=> MayCancel(appointments[id], user)
                 /\ last'.code = 200 => appointments'[id].status = CANCELLED
                 /\ last'.code # 200 => appointments' = appointments ) ]_vars

(* the doctor cancelled an appointment of their own doctor profile, and an *)
(* appointment of the other doctor is still Confirmed                      *)
C12_Witness ==
    /\ last.op = "cancel" /\ last.code = 200
    /\ last.id \in Stored
    /\ appointments[last.id].status = CANCELLED
    /\ appointments[last.id].updatedBy = "uD1"
    /\ appointments[last.id].doctor = "d1"
    /\ \E id \in Stored : appointments[id].doctor = "d2" /\ appointments[id].status = CONFIRMED

(***************************************************************************)
(* Specification of booking requests: every user posts requests naming     *)
(* existing, soft-deleted and unknown patients and doctors, at past,       *)
(* out-of-hours and in-hours instants, some carrying a status.             *)
(***************************************************************************)
RequestTimes == {At(1, 7, 0), At(1, 8, 30), At(1, 10, 0), At(1, 23, 59)}

RequestBodies ==
    [patient : {"p2", "p0", "pX"}, doctor : {"d1", "d0", "dX"},
     appointmentTime : RequestTimes, durationMinutes : {Undefined, 60}]
    \cup [patient : {NoRef}, doctor : {"d1"},
          appointmentTime : {At(1, 10, 0)}, durationMinutes : {Undefined}]
    \cup [patient : {"p2"}, doctor : {"d1"},
          appointmentTime : {At(1, 10, 0)}, durationMinutes : {Undefined},
          status : {CONFIRMED, CANCELLED, COMPLETED, NO_SHOW}]

NextCreate ==
    \E body \in RequestBodies, user \in Users : CreateAppointment(body, user)

SpecCreate == Init /\ [][NextCreate]_vars

(***************************************************************************)
(* C13: a created appointment has status Confirmed and scheduledByStaff    *)
(* set to the caller iff the caller is Staff or Admin; for every other     *)
(* caller it has status Requested and no scheduledByStaff; no appointment  *)
(* is created in status Cancelled, Completed or NoShow.                    *)
(***************************************************************************)
C13_InitialStatusByRole ==
    [][ \A body \in RequestBodies, user \in Users :
            (last'.op = "create" /\ last'.code = 201 /\ CreateAppointment(body, user))
            => LET created == appointments'[last'.id]
               IN  /\ Len(appointments') = Len(appointments) + 1
                   /\ last'.id = Len(appointments')
                   /\ user.role \in {STAFF, ADMIN}
                        <=> (created.status = CONFIRMED /\ created.scheduledByStaff = user.id)
                   /\ user.role \notin {STAFF, ADMIN}
                        => (created.status = REQUESTED /\ created.scheduledByStaff = NoRef)
                   /\ created.status \notin {CANCELLED, COMPLETED, NO_SHOW} ]_vars

(* a staff member has just booked a Confirmed appointment recorded as      *)
(* scheduled by them, next to a Requested one booked by a patient          *)
C13_Witness ==
    /\ last.op = "create" /\ last.code = 201
    /\ last.id \in Stored
    /\ appointments[last.id].status = CONFIRMED
    /\ appointments[last.id].scheduledByStaff = "uS"
    /\ \E id \in Stored :
            /\ appointments[id].status = REQUESTED
            /\ appointments[id].scheduledByStaff = NoRef
            /\ appointments[id].updatedBy = "uP1"

(***************************************************************************)
(* C15: a well-formed booking request fails with 404 when its doctor or    *)
(* patient does not exist or is soft-deleted, and with 409 when both exist *)
(* and its future window shares no minute with any working block or        *)
(* overlaps a blocking appointment; 404 is reported only for a missing     *)
(* doctor or patient, 409 only when both exist, and a failed request       *)
(* stores nothing.                                                         *)
(***************************************************************************)
WorkingMinute(schedule, m) ==
    \E i \in 1..Len(schedule) :
        /\ schedule[i].dayOfWeek = getDay(m)
        /\ BlockStart(schedule[i]) <= TimeOfDay(m)
        /\ TimeOfDay(m) < BlockEnd(schedule[i])

OutsideEveryBlock(schedule, start, duration) ==
    \A m \in WindowMinutes(start, duration) : ~WorkingMinute(schedule, m)

RequestedDuration(body) ==
    IF body.durationMinutes = Undefined THEN defaultDurationMinutes ELSE body.durationMinutes

RequestedPatient(body, user) ==
    IF user.role = PATIENT THEN user.patientProfile ELSE body.patient

C15_NotFoundVersusConflict ==
    [][ \A body \in RequestBodies, user \in Users :
            ( /\ last'.op = "create"
              /\ createAppointmentGate(now, body, user) = 0
              /\ CreateAppointment(body, user) )
            => LET missing == \/ body.doctor \notin DoctorProfiles
                              \/ RequestedPatient(body, user) \notin PatientProfiles
                   unavailable ==
                       \/ OutsideEveryBlock(weeklySchedule[body.doctor], body.appointmentTime,
                                            RequestedDuration(body))
                       \/ BlockedBy(body.doctor, body.appointmentTime,
                                    RequestedDuration(body), Undefined)
               IN  /\ missing => last'.code = 404
                   /\ (~missing /\ unavailable) => last'.code = 409
                   /\ last'.code = 404 => missing
                   /\ last'.code = 409 => ~missing
                   /\ last'.code \in {404, 409} => appointments' = appointments ]_vars

(***************************************************************************)
(* Specification of rebooking: a patient and an administrator book Monday  *)
(* morning slots, cancel them, book again and reschedule.                  *)
(***************************************************************************)
RebookUsers == {User("uP1"), User("uA")}

RebookTimes == {At(1, 10, 0), At(1, 10, 30)}

RebookCreateBodies ==
    [patient : {"p2"}, doctor : DoctorProfiles,
     appointmentTime : RebookTimes, durationMinutes : {Undefined, 60}]

RebookUpdateBodies ==
    { UpdateBody(NoStatus, t, d, NoText, NoText) : t \in RebookTimes, d \in {Undefined, 60} }

NextRebook ==
    \/ \E body \in RebookCreateBodies, user \in RebookUsers : CreateAppointment(body, user)
    \/ \E id \in AppointmentIds, user \in RebookUsers : CancelAppointment(id, "r", user)
    \/ \E id \in AppointmentIds, body \in RebookUpdateBodies :
            UpdateAppointment(id, body, User("uA"))

SpecRebook == Init /\ [][NextRebook]_vars

(* the stored appointments of the doctor, other than except, that share a  *)
(* minute with the window                                                  *)
OverlappingIds(doctorId, start, duration, except) ==
    { id \in Stored :
        /\ id # except
        /\ ~appointments[id].isDeleted
        /\ appointments[id].doctor = doctorId
        /\ Overlaps(start, duration,
                    appointments[id].appointmentTime, appointments[id].durationMinutes) }

(* the window overlaps cancelled appointments of the doctor and no others *)
OverlapsOnlyCancelled(doctorId, start, duration, except) ==
    /\ OverlappingIds(doctorId, start, duration, except) # {}
    /\ \A id \in OverlappingIds(doctorId, start, duration, except) :
            /\ appointments[id].status = CANCELLED
            /\ appointments[id].cancellationReason # NoText

(***************************************************************************)
(* C14: a booking, or a reschedule of another appointment, whose future    *)
(* window lies inside a working block of the doctor and overlaps only      *)
(* cancelled appointments of that doctor is accepted.                      *)
(***************************************************************************)
C14_CancelledNeverBlocks ==
    [][ /\ \A body \in RebookCreateBodies, user \in RebookUsers :
            ( /\ last'.op = "create"
              /\ body.appointmentTime > now
              /\ InsideWorkingBlock(weeklySchedule[body.doctor], body.appointmentTime,
                                    RequestedDuration(body))
              /\ OverlapsOnlyCancelled(body.doctor, body.appointmentTime,
                                       RequestedDuration(body), 0)
              /\ CreateAppointment(body, user) )
            => ( /\ last'.code = 201
                 /\ appointments'[last'.id].appointmentTime = body.appointmentTime
                 /\ appointments'[last'.id].doctor = body.doctor )
        /\ \A id \in AppointmentIds, body \in RebookUpdateBodies :
            ( /\ last'.op = "update"
              /\ Present(id)
              /\ body.appointmentTime > now
              /\ LET duration == IF body.durationMinutes = Undefined
                                 THEN appointments[id].durationMinutes
                                 ELSE body.durationMinutes
                 IN  /\ InsideWorkingBlock(weeklySchedule[appointments[id].doctor],
                                           body.appointmentTime, duration)
                     /\ OverlapsOnlyCancelled(appointments[id].doctor, body.appointmentTime,
                                              duration, id)
              /\ UpdateAppointment(id, body, User("uA")) )
            => ( /\ last'.code = 200
                 /\ appointments'[id].appointmentTime = body.appointmentTime ) ]_vars

(* a booking was accepted on a window that a cancelled appointment of the  *)
(* same doctor overlaps                                                    *)
C14_Witness ==
    /\ last.op = "create" /\ last.code = 201
    /\ last.id \in Stored
    /\ Blocking(appointments[last.id])
    /\ \E id \in Stored :
            /\ id # last.id
            /\ appointments[id].status = CANCELLED
            /\ appointments[id].cancellationReason # NoText
            /\ appointments[id].doctor = appointments[last.id].doctor
            /\ Overlaps(appointments[id].appointmentTime, appointments[id].durationMinutes,
                        appointments[last.id].appointmentTime,
                        appointments[last.id].durationMinutes)

(***************************************************************************)
(* Specification of updates: the administrator books Monday 10:00 with     *)
(* doctor d1; a patient and the administrator send updates that combine a  *)
(* status, a new time (past, unparseable, free or taken), a duration and   *)
(* notes.                                                                  *)
(***************************************************************************)
ChangeUsers == {User("uP1"), User("uA")}

ChangeCreateBodies ==
    [patient : {"p2"}, doctor : {"d1"},
     appointmentTime : {At(1, 10, 0)}, durationMinutes : {Undefined}]

ChangeTimes == {NaN, At(1, 7, 0), At(1, 10, 0), At(1, 10, 30)}

ChangeBodies ==
    { UpdateBody(NoStatus, t, Undefined, NoText, NoText) : t \in {At(1, 10, 0), At(1, 10, 30)} }
    \cup { UpdateBody(COMPLETED, t, 60, "n", NoText) : t \in ChangeTimes \cup {Undefined} }
    \cup { UpdateBody(CANCELLED, t, Undefined, NoText, "r") : t \in ChangeTimes \cup {Undefined} }
    \cup { UpdateBody(CONFIRMED, t, Undefined, NoText, NoText) : t \in {Undefined, At(1, 10, 30)} }

NextUpdate ==
    \/ \E body \in ChangeCreateBodies : CreateAppointment(body, User("uA"))
    \/ \E id \in AppointmentIds, body \in ChangeBodies, user \in ChangeUsers :
            UpdateAppointment(id, body, user)

SpecUpdate == Init /\ [][NextUpdate]_vars

(* the requested appointmentTime cannot be taken: unparseable, not in the  *)
(* future, or refused by the availability check run for appointment id     *)
BadNewTime(id, body) ==
    /\ body.appointmentTime # Undefined
    /\ \/ body.appointmentTime = NaN
       \/ body.appointmentTime <= now
       \/ ~checkDoctorAvailability(appointments, weeklySchedule, appointments[id].doctor,
                                   body.appointmentTime,
                                   IF body.durationMinutes = Undefined
                                   THEN appointments[id].durationMinutes
                                   ELSE body.durationMinutes,
                                   id)

MayNotConfirmOrComplete(body, user) ==
    body.status \in {CONFIRMED, COMPLETED} /\ user.role \notin {DOCTOR, STAFF, ADMIN}

(***************************************************************************)
(* C16 (as stated): an update whose appointmentTime is unparseable, not in *)
(* the future or unavailable fails with 400 or 409 and leaves the stored   *)
(* appointment as it was, whatever else the call carried.                  *)
(***************************************************************************)
C16_FailedRescheduleChangesNothing ==
    /\ [](\A id \in AppointmentIds, body \in ChangeBodies, user \in ChangeUsers :
            (Present(id) /\ BadNewTime(id, body))
            => LET r == updateAppointmentRoute(appointments, weeklySchedule, now, id, body, user)
               IN  r[1] \in {400, 409} /\ r[2] = appointments)
    /\ [][ (last'.op = "update" /\ last'.code # 200) => appointments' = appointments ]_vars

(***************************************************************************)
(* C16 (amended): an update whose appointmentTime is unparseable, not in   *)
(* the future or unavailable fails and leaves the stored appointment as it *)
(* was, whatever else the call carried; it fails with 400 or 409, except   *)
(* that a call with an unavailable future time that also asks for status   *)
(* Confirmed or Completed from a caller who is not Doctor, Staff or Admin  *)
(* fails with 403.                                                         *)
(***************************************************************************)
C16_FailedRescheduleChangesNothingOr403 ==
    /\ [](\A id \in AppointmentIds, body \in ChangeBodies, user \in ChangeUsers :
            (Present(id) /\ BadNewTime(id, body))
            => LET r == updateAppointmentRoute(appointments, weeklySchedule, now, id, body, user)
               IN  /\ r[1] \in {400, 403, 409}
                   /\ r[1] = 403 <=> ( /\ MayNotConfirmOrComplete(body, user)
                                       /\ body.appointmentTime # NaN
                                       /\ body.appointmentTime > now )
                   /\ r[2] = appointments)
    /\ [][ (last'.op = "update" /\ last'.code # 200) => appointments' = appointments ]_vars

(* a reschedule was refused with 409 and both appointments of the doctor   *)
(* are still Confirmed at their own times                                  *)
C16_Witness ==
    /\ last.op = "update" /\ last.code = 409
    /\ Len(appointments) = 2
    /\ \A id \in Stored : appointments[id].status = CONFIRMED
    /\ appointments[1].appointmentTime # appointments[2].appointmentTime

(***************************************************************************)
(* C17: an update asking for status Confirmed or Completed from a caller   *)
(* who is not Doctor, Staff or Admin fails with 403 and changes nothing,   *)
(* whatever appointmentTime the call also carries.                         *)
(***************************************************************************)
C17_OnlyClinicRolesConfirmOrComplete ==
    [][ \A id \in AppointmentIds, body \in ChangeBodies, user \in ChangeUsers :
            ( /\ last'.op = "update"
              /\ Present(id)
              /\ MayNotConfirmOrComplete(body, user)
              /\ UpdateAppointment(id, body, user) )
            => ( /\ updateAppointmentService(appointments, weeklySchedule, now,
                                             id, body, user) = <<403, appointments>>
                 /\ updateAppointmentValidator(body, now) => last'.code = 403
                 /\ last'.code \in {400, 403}
                 /\ appointments' = appointments ) ]_vars

(* an update was refused with 403 while the appointment is still Confirmed *)
(* at its booked time, last written by the administrator                   *)
C17_Witness ==
    /\ last.op = "update" /\ last.code = 403
    /\ Len(appointments) = 1
    /\ appointments[1].status = CONFIRMED
    /\ appointments[1].appointmentTime = At(1, 10, 0)
    /\ appointments[1].updatedBy = "uA"

(***************************************************************************)
(* C18: every appointment that enters status Cancelled has a non-empty     *)
(* cancellationReason when the operation that cancelled it has finished,   *)
(* and a request that names no reason does not change the status.          *)
(***************************************************************************)
C18_CancelledHasReason ==
    [][ \A id \in Stored :
            (appointments[id].status # CANCELLED /\ appointments'[id].status = CANCELLED)
            => appointments'[id].cancellationReason # NoText ]_vars

(***************************************************************************)
(* C20 (as stated): no appointment is ever in status NoShow.               *)
(***************************************************************************)
C20_NeverNoShow ==
    \A id \in Stored : appointments[id].status # NO_SHOW

(***************************************************************************)
(* C20 (amended): createAppointment and cancelAppointment never move an    *)
(* appointment into status NoShow; an appointment enters NoShow only by a  *)
(* successful updateAppointment call on it whose requested status is       *)
(* NoShow.                                                                 *)
(***************************************************************************)
C20_NoShowOnlyByUpdateNamingIt ==
    [][ \A id \in AppointmentIds :
            ( /\ id \in 1..Len(appointments')
              /\ appointments'[id].status = NO_SHOW
              /\ (id \in Stored => appointments[id].status # NO_SHOW) )
            => ( /\ id \in Stored
                 /\ last'.op = "update" /\ last'.code = 200 /\ last'.id = id
                 /\ \E body \in CancelUpdateBodies :
                        /\ body.status = NO_SHOW
                        /\ UpdateAppointment(id, body, User("uA")) ) ]_vars

(* an update has just put a Requested appointment of a patient in status   *)
(* NoShow, after a cancellation of the other appointment                   *)
C20_Witness ==
    /\ last.op = "update" /\ last.code = 200
    /\ last.id \in Stored
    /\ appointments[last.id].status = NO_SHOW
    /\ appointments[last.id].scheduledByStaff = NoRef
    /\ \E id \in Stored : appointments[id].status = CANCELLED

(***************************************************************************)
(* Validation of a doctor profile's weeklySchedule when the profile        *)
(* document is saved                                                       *)
(***************************************************************************)
(* the endTime validator of one availability block *)
endTimeValid(block) == StrLess(block.startTime, block.endTime)

(* the blocks of one day, in schedule order *)
slotsByDay(schedule, day) == SelectSeq(schedule, LAMBDA slot : slot.dayOfWeek = day)

(* insertion of one block behind every block that does not start later *)
RECURSIVE insertByStart(_, _)
insertByStart(slot, sorted) ==
    IF sorted = <<>> THEN <<slot>>
    ELSE IF StrLess(slot.startTime, Head(sorted).startTime) THEN <<slot>> \o sorted
    ELSE <<Head(sorted)>> \o insertByStart(slot, Tail(sorted))

RECURSIVE sortFrom(_, _)
sortFrom(daySlots, sorted) ==
    IF daySlots = <<>> THEN sorted
    ELSE sortFrom(Tail(daySlots), insertByStart(Head(daySlots), sorted))

sortByStart_unsorted(daySlots) == daySlots

(* daySlots.sort((a, b) => a.start.localeCompare(b.start)), a stable sort *)
sortByStart(daySlots) == sortFrom(daySlots, <<>>)

(* the loop over neighbours: some block ends after the next one starts *)
adjacentOverlap(daySlots) ==
    \E i \in 1..(Len(daySlots) - 1) : StrLess(daySlots[i + 1].startTime, daySlots[i].endTime)

(* the validator of the weeklySchedule array *)
weeklyScheduleValidate(schedule) ==
    IF Len(schedule) = 0 THEN TRUE
    ELSE \A day \in { schedule[i].dayOfWeek : i \in 1..Len(schedule) } :
            ~adjacentOverlap(sortByStart(slotsByDay(schedule, day)))

(* document validation on save: every block's validators and the array's *)
validateDoctorProfile(schedule) ==
    /\ \A i \in 1..Len(schedule) : endTimeValid(schedule[i])
    /\ weeklyScheduleValidate(schedule)

(* a profile document with a weeklySchedule is saved; a validation error   *)
(* is answered with 400 and stores nothing                                 *)
SaveDoctorProfile ==
    /\ last.op = "saveProfile" /\ last.code = 0
    /\ IF validateDoctorProfile(last.schedule)
       THEN /\ weeklySchedule' = [weeklySchedule EXCEPT ![last.doctor] = last.schedule]
            /\ last' = [last EXCEPT !.code = 200]
       ELSE /\ weeklySchedule' = weeklySchedule
            /\ last' = [last EXCEPT !.code = 400]
    /\ UNCHANGED <<appointments, now, pending>>

(***************************************************************************)
(* Specification of schedule writes: one profile save is in flight, with   *)
(* any schedule of at most MaxBlocks blocks over four stamps and two days. *)
(***************************************************************************)
ScheduleStamps == {HHMM(9, 0), HHMM(10, 0), HHMM(11, 0), HHMM(12, 0)}

ScheduleBlocks ==
    { Block(1, st, en) : st \in ScheduleStamps, en \in ScheduleStamps }
    \cup { Block(2, HHMM(9, 0), HHMM(11, 0)), Block(2, HHMM(10, 0), HHMM(12, 0)),
           Block(2, HHMM(10, 0), HHMM(11, 0)) }

ScheduleInputs == UNION { [1..n -> ScheduleBlocks] : n \in 0..MaxBlocks }

InitSchedule ==
    /\ appointments = <<>>
    /\ weeklySchedule = InitialSchedules
    /\ now = StartNow
    /\ pending = <<>>
    /\ last \in { [Response("saveProfile", 0, 0, Undefined) EXCEPT
                        !.doctor = "d1", !.schedule = schedule] : schedule \in ScheduleInputs }

NextSchedule == SaveDoctorProfile

SpecSchedule == InitSchedule /\ [][NextSchedule]_vars

BlocksOverlap(a, b) ==
    /\ a.dayOfWeek = b.dayOfWeek
    /\ BlockStart(a) < BlockEnd(b)
    /\ BlockStart(b) < BlockEnd(a)

WellFormedSchedule(schedule) ==
    /\ \A i \in 1..Len(schedule) : BlockStart(schedule[i]) < BlockEnd(schedule[i])
    /\ \A i, j \in 1..Len(schedule) : i < j => ~BlocksOverlap(schedule[i], schedule[j])

(***************************************************************************)
(* C19: a saved weeklySchedule is accepted iff every block ends after it   *)
(* starts and no two blocks of the same day overlap; blocks that touch are *)
(* accepted, and every schedule with an overlapping same-day pair is       *)
(* rejected and not stored.                                                *)
(***************************************************************************)
C19_ScheduleAcceptedIffWellFormed ==
    (last.op = "saveProfile" /\ last.code # 0)
    => ( /\ last.code = 200 <=> WellFormedSchedule(last.schedule)
         /\ last.code = 200 => weeklySchedule[last.doctor] = last.schedule
         /\ last.code # 200 => (last.code = 400 /\ weeklySchedule = InitialSchedules) )

(* three Monday blocks given out of order, two of them touching, were      *)
(* accepted and stored                                                     *)
C19_Witness ==
    /\ last.op = "saveProfile" /\ last.code = 200
    /\ Len(last.schedule) = 3
    /\ \A i \in 1..3 : last.schedule[i].dayOfWeek = 1
    /\ StrLess(last.schedule[2].startTime, last.schedule[1].startTime)
    /\ last.schedule[1].endTime = last.schedule[3].startTime
    /\ weeklySchedule["d1"] = last.schedule

(***************************************************************************)
(* Specification of requests against a moving clock: a patient and the     *)
(* administrator book and reschedule at instants before, at and after the  *)
(* clock, for a known and an unknown doctor, while the clock advances.     *)
(***************************************************************************)
ClockUsers == {User("uP1"), User("uA")}

ClockTimes == {At(1, 7, 0), StartNow, At(1, 10, 0), At(1, 10, 30)}

ClockCreateBodies ==
    [patient : {"p2"}, doctor : {"d1", "dX"},
     appointmentTime : ClockTimes, durationMinutes : {Undefined}]

ClockUpdateBodies ==
    { UpdateBody(st, t, Undefined, NoText, NoText) : st \in {NoStatus, COMPLETED}, t \in ClockTimes }

NextClock ==
    \/ \E body \in ClockCreateBodies, user \in ClockUsers : CreateAppointment(body, user)
    \/ \E id \in AppointmentIds, body \in ClockUpdateBodies, user \in ClockUsers :
            UpdateAppointment(id, body, user)
    \/ Tick

SpecClock == Init /\ [][NextClock]_vars

(***************************************************************************)
(* C21: every appointmentTime written by a booking or a reschedule is      *)
(* strictly later than the clock at the call; a request whose time is not  *)
(* later than the clock is answered 400, whatever the availability check   *)
(* or the lookup of doctor and appointment would say, and writes nothing.  *)
(***************************************************************************)
C21_WrittenTimesAreFuture ==
    [][ /\ \A id \in 1..Len(appointments') :
            (id \notin Stored
             \/ appointments'[id].appointmentTime # appointments[id].appointmentTime)
            => appointments'[id].appointmentTime > now
        /\ \A body \in ClockCreateBodies, user \in ClockUsers :
            (last'.op = "create" /\ body.appointmentTime <= now /\ CreateAppointment(body, user))
            => (last'.code = 400 /\ appointments' = appointments)
        /\ \A id \in AppointmentIds, body \in ClockUpdateBodies, user \in ClockUsers :
            (last'.op = "update" /\ body.appointmentTime <= now
             /\ UpdateAppointment(id, body, user))
            => (last'.code = 400 /\ appointments' = appointments) ]_vars

(* after the clock moved past 10:00 a request was answered 400, and the    *)
(* stored appointment was rescheduled to a time that is still ahead        *)
C21_Witness ==
    /\ now > At(1, 10, 0)
    /\ last.code = 400
    /\ \E id \in Stored :
            /\ appointments[id].appointmentTime = At(1, 10, 30)
            /\ appointments[id].appointmentTime > now

(***************************************************************************)
(* C22: an appointment booked by a Patient references the caller's own     *)
(* patient profile whatever patient the body names, both through the       *)
(* request handler and in the service called with the unmodified body; a   *)
(* booking by a caller who is not a Patient and names no patient fails     *)
(* with 400 and stores nothing.                                            *)
(***************************************************************************)
C22_PatientBooksForSelf ==
    /\ [](\A body \in RequestBodies, user \in Users :
            LET r == createAppointmentService(appointments, weeklySchedule, now, body, user)
            IN  /\ (user.role = PATIENT /\ r[1] = 201)
                    => r[2][Len(r[2])].patient = user.patientProfile
                /\ (user.role # PATIENT /\ body.patient = NoRef)
                    => r = <<400, appointments>>)
    /\ [][ /\ \A body \in RequestBodies, user \in {u \in Users : u.role = PATIENT} :
                (last'.op = "create" /\ last'.code = 201 /\ CreateAppointment(body, user))
                => appointments'[last'.id].patient = user.patientProfile
           /\ \A body \in {b \in RequestBodies : b.patient = NoRef},
                 user \in {u \in Users : u.role \in {STAFF, ADMIN}} :
                (last'.op = "create" /\ CreateAppointment(body, user))
                => (last'.code = 400 /\ appointments' = appointments) ]_vars

(* patient uP1 has booked; no request names p1, and the stored appointment *)
(* references p1                                                           *)
C22_Witness ==
    /\ last.op = "create" /\ last.code = 201
    /\ last.id \in Stored
    /\ appointments[last.id].updatedBy = "uP1"
    /\ appointments[last.id].patient = "p1"
    /\ \A body \in RequestBodies : body.patient # "p1"

(***************************************************************************)
(* Specification of notes and reasons: the administrator books Monday      *)
(* 10:00 with doctor d1, sends updates that combine every status with      *)
(* notes and a reason, reschedules, cancels with a reason of its own and   *)
(* deletes.                                                                *)
(***************************************************************************)
NotesUsers == {User("uA")}

NotesCreateBodies ==
    [patient : {"p2"}, doctor : {"d1"},
     appointmentTime : {At(1, 10, 0)}, durationMinutes : {Undefined}]

NotesBodies ==
    { UpdateBody(st, Undefined, Undefined, n, r) :
        st \in {NoStatus, CONFIRMED, COMPLETED, CANCELLED}, n \in {NoText, "n"}, r \in {NoText, "r"} }
    \cup { UpdateBody(NoStatus, At(1, 10, 30), Undefined, "n", "r") }

NextNotes ==
    \/ \E body \in NotesCreateBodies, user \in NotesUsers : CreateAppointment(body, user)
    \/ \E id \in AppointmentIds, body \in NotesBodies, user \in NotesUsers :
            UpdateAppointment(id, body, user)
    \/ \E id \in AppointmentIds, user \in NotesUsers : CancelAppointment(id, "c", user)
    \/ \E id \in AppointmentIds : DeleteAppointment(id, User("uA"))

SpecNotes == Init /\ [][NextNotes]_vars

(***************************************************************************)
(* C23: a step changes a stored cancellationReason only if it is a         *)
(* successful update or cancel of that appointment that leaves it          *)
(* Cancelled, and changes completionNotes only if it is a successful       *)
(* update that leaves it Completed; an update writes the reason only when  *)
(* its body sets status Cancelled and the notes only when its body sets    *)
(* status Completed; a new appointment has neither.                        *)
(***************************************************************************)
C23_ReasonAndNotesOnlyOnTerminal ==
    /\ [](\A id \in Stored, body \in NotesBodies, user \in NotesUsers :
            LET r == updateAppointmentRoute(appointments, weeklySchedule, now, id, body, user)
            IN  /\ r[2][id].cancellationReason # appointments[id].cancellationReason
                    => body.status = CANCELLED
                /\ r[2][id].completionNotes # appointments[id].completionNotes
                    => body.status = COMPLETED)
    /\ [][ \A id \in 1..Len(appointments') :
            IF id \in Stored
            THEN /\ appointments'[id].cancellationReason # appointments[id].cancellationReason
                    => ( /\ appointments'[id].status = CANCELLED
                         /\ last'.op \in {"update", "cancel"}
                         /\ last'.code = 200 /\ last'.id = id )
                 /\ appointments'[id].completionNotes # appointments[id].completionNotes
                    => ( /\ appointments'[id].status = COMPLETED
                         /\ last'.op = "update"
                         /\ last'.code = 200 /\ last'.id = id )
            ELSE /\ appointments'[id].cancellationReason = NoText
                 /\ appointments'[id].completionNotes = NoText ]_vars

(* an appointment cancelled with reason "c" was later completed with notes *)
(* by an update: the notes are written, the reason is the one of the       *)
(* cancel call                                                             *)
C23_Witness ==
    /\ last.op = "update" /\ last.code = 200
    /\ last.id \in Stored
    /\ appointments[last.id].status = COMPLETED
    /\ appointments[last.id].completionNotes = "n"
    /\ appointments[last.id].cancellationReason = "c"

(***************************************************************************)
(* Specification of references: a patient and the administrator book       *)
(* Monday 10:00 with doctor d1; a patient, a doctor and the administrator  *)
(* confirm, send updates that name another patient or doctor, cancel and   *)
(* delete.                                                                 *)
(***************************************************************************)
RefUsers == {User("uP1"), User("uD1"), User("uA")}

RefCreateBodies ==
    [patient : {"p2"}, doctor : {"d1"},
     appointmentTime : {At(1, 10, 0)}, durationMinutes : {Undefined}]

RefBodies ==
    { UpdateBody(CONFIRMED, Undefined, Undefined, NoText, NoText) }
    \cup { [status |-> CONFIRMED, appointmentTime |-> Undefined, durationMinutes |-> Undefined,
            completionNotes |-> NoText, cancellationReason |-> NoText, doctor |-> "d2"],
           [status |-> CONFIRMED, appointmentTime |-> Undefined, durationMinutes |-> Undefined,
            completionNotes |-> NoText, cancellationReason |-> NoText, patient |-> "p1"],
           [status |-> NoStatus, appointmentTime |-> At(1, 10, 30), durationMinutes |-> Undefined,
            completionNotes |-> NoText, cancellationReason |-> NoText,
            patient |-> "p1", doctor |-> "d2"] }

NextRefs ==
    \/ \E body \in RefCreateBodies, user \in {User("uP1"), User("uA")} :
            CreateAppointment(body, user)
    \/ \E id \in AppointmentIds, body \in RefBodies, user \in RefUsers :
            UpdateAppointment(id, body, user)
    \/ \E id \in AppointmentIds, user \in RefUsers : CancelAppointment(id, "r", user)
    \/ \E id \in AppointmentIds, user \in RefUsers : DeleteAppointment(id, user)

SpecRefs == Init /\ [][NextRefs]_vars

(***************************************************************************)
(* C24: no step changes the patient or the doctor of a stored appointment, *)
(* whatever the body of an update names and whoever calls.                 *)
(***************************************************************************)
C24_ReferencesNeverChange ==
    [][ \A id \in Stored :
            /\ appointments'[id].patient = appointments[id].patient
            /\ appointments'[id].doctor = appointments[id].doctor ]_vars

(* the patient's own appointment was cancelled and deleted, an update      *)
(* naming another patient or doctor has just been refused, and the         *)
(* references are those of the booking                                     *)
C24_Witness ==
    /\ last.op = "update" /\ last.code = 400
    /\ \E id \in Stored :
            /\ appointments[id].status = CANCELLED
            /\ appointments[id].isDeleted
            /\ appointments[id].patient = "p1"
            /\ appointments[id].doctor = "d1"

(***************************************************************************)
(* Specification of pure reschedules: the administrator books doctor d1    *)
(* on Monday between 10:00 and 11:00, cancels, deletes, and sends updates  *)
(* that carry a new time and possibly a duration but no status.            *)
(***************************************************************************)
PureTimes == {At(1, 10, 0), At(1, 10, 15), At(1, 10, 30)}

PureCreateBodies ==
    [patient : {"p2"}, doctor : {"d1"},
     appointmentTime : PureTimes, durationMinutes : {Undefined, 60}]

PureBodies ==
    { UpdateBody(NoStatus, t, d, NoText, NoText) : t \in PureTimes, d \in {Undefined, 15, 60} }

NextPure ==
    \/ \E body \in PureCreateBodies : CreateAppointment(body, User("uA"))
    \/ \E id \in AppointmentIds, body \in PureBodies : UpdateAppointment(id, body, User("uA"))
    \/ \E id \in AppointmentIds : CancelAppointment(id, "r", User("uA"))
    \/ \E id \in AppointmentIds : DeleteAppointment(id, User("uA"))

SpecPure == Init /\ [][NextPure]_vars

(***************************************************************************)
(* C25: when the only calls are create, cancel, delete and updates without *)
(* a status, no two non-deleted Requested/Confirmed appointments of one    *)
(* doctor have overlapping half-open intervals.                            *)
(***************************************************************************)
C25_NoOverlapAmongBlocking ==
    \A i \in Stored, j \in Stored :
        ( /\ i < j
          /\ appointments[i].doctor = appointments[j].doctor
          /\ Blocking(appointments[i]) /\ Blocking(appointments[j]) )
        => ~Overlaps(appointments[i].appointmentTime, appointments[i].durationMinutes,
                     appointments[j].appointmentTime, appointments[j].durationMinutes)

(* a reschedule has just put one blocking appointment of d1 right after    *)
(* the other: the first ends at the minute the second starts               *)
C25_Witness ==
    /\ last.op = "update" /\ last.code = 200
    /\ \E i \in Stored, j \in Stored :
            /\ i # j /\ last.id = j
            /\ appointments[i].doctor = appointments[j].doctor
            /\ Blocking(appointments[i]) /\ Blocking(appointments[j])
            /\ appointments[j].appointmentTime # last.prev
            /\ appointments[i].appointmentTime + appointments[i].durationMinutes
                    = appointments[j].appointmentTime

(***************************************************************************)
(* C26: every update or cancel call by a Patient on a stored appointment   *)
(* of another patient fails and leaves the stored appointments unchanged.  *)
(***************************************************************************)
C26_PatientCannotChangeOthers ==
    \A id \in Stored, user \in {u \in ChangeUsers : u.role = PATIENT} :
        (Present(id) /\ OtherPatients(appointments[id], user))
        => /\ \A body \in ChangeBodies :
                LET r == updateAppointmentRoute(appointments, weeklySchedule, now, id, body, user)
                IN  r[1] # 200 /\ r[2] = appointments
           /\ LET c == cancelAppointmentRoute(appointments, id, "r", user)
              IN  c[1] # 200 /\ c[2] = appointments

(***************************************************************************)
(* Specification of durations: the administrator books doctor d1 on Monday *)
(* at 10:00 and 10:30 for the default 30 minutes and sends updates that    *)
(* carry a duration of 15 or 60 minutes, with or without a new time.       *)
(***************************************************************************)
DurationCreateBodies ==
    [patient : {"p2"}, doctor : {"d1"},
     appointmentTime : {At(1, 10, 0), At(1, 10, 30)}, durationMinutes : {Undefined}]

DurationBodies ==
    { UpdateBody(NoStatus, t, d, NoText, NoText) :
        t \in {Undefined, At(1, 10, 0), At(1, 10, 30)}, d \in {15, 60} }

NextDuration ==
    \/ \E body \in DurationCreateBodies : CreateAppointment(body, User("uA"))
    \/ \E id \in AppointmentIds, body \in DurationBodies : UpdateAppointment(id, body, User("uA"))
    \/ \E id \in AppointmentIds : CancelAppointment(id, "r", User("uA"))

SpecDuration == Init /\ [][NextDuration]_vars

(***************************************************************************)
(* C27: an update that carries durationMinutes without appointmentTime     *)
(* succeeds on a stored appointment and leaves its durationMinutes and     *)
(* appointmentTime as they were; a step changes a stored durationMinutes   *)
(* only as a successful update of that appointment whose resulting window  *)
(* passes the availability check against the appointments stored before    *)
(* the call.                                                               *)
(***************************************************************************)
C27_DurationChangesOnlyWithCheck ==
    /\ [](\A id \in Stored, body \in DurationBodies :
            body.appointmentTime = Undefined
            => LET r == updateAppointmentRoute(appointments, weeklySchedule, now, id, body, User("uA"))
               IN  /\ r[1] = 200
                   /\ r[2][id].durationMinutes = appointments[id].durationMinutes
                   /\ r[2][id].appointmentTime = appointments[id].appointmentTime)
    /\ [][ \A id \in Stored :
            appointments'[id].durationMinutes # appointments[id].durationMinutes
            => ( /\ last'.op = "update" /\ last'.code = 200 /\ last'.id = id
                 /\ checkDoctorAvailability(appointments, weeklySchedule, appointments[id].doctor,
                                            appointments'[id].appointmentTime,
                                            appointments'[id].durationMinutes, id) ) ]_vars

(* every update that names a time also sets a duration of 15 or 60: the    *)
(* appointment just updated still has its 30 minutes at 10:00, next to a   *)
(* blocking appointment at 10:30, so the update carried a duration alone   *)
C27_Witness ==
    /\ last.op = "update" /\ last.code = 200
    /\ last.id \in Stored
    /\ appointments[last.id].appointmentTime = At(1, 10, 0)
    /\ appointments[last.id].durationMinutes = defaultDurationMinutes
    /\ \A body \in DurationBodies :
            body.appointmentTime # Undefined => body.durationMinutes # defaultDurationMinutes
    /\ \E j \in Stored :
            /\ Blocking(appointments[j])
            /\ appointments[j].appointmentTime = At(1, 10, 30)

(***************************************************************************)
(* Specification of deletion: the administrator books doctor d1 on Monday  *)
(* at 10:00 and 10:30, confirms, reschedules and cancels; every role tries *)
(* to delete; the free slots of d1 on Monday are listed.                   *)
(***************************************************************************)
DeleteCreateBodies ==
    [patient : {"p2"}, doctor : {"d1"},
     appointmentTime : {At(1, 10, 0), At(1, 10, 30)}, durationMinutes : {Undefined}]

DeleteBodies ==
    { UpdateBody(CONFIRMED, Undefined, Undefined, NoText, NoText),
      UpdateBody(NoStatus, At(1, 10, 30), Undefined, NoText, NoText),
      UpdateBody(CANCELLED, Undefined, Undefined, NoText, "r") }

(* bodies the validator refuses, handed to the service directly *)
DeleteServiceBodies ==
    DeleteBodies \cup { UpdateBody(COMPLETED, NaN, 1, "n", NoText),
                        UpdateBody(NoStatus, At(1, 7, 0), Undefined, NoText, NoText) }

NextDelete ==
    \/ \E body \in DeleteCreateBodies : CreateAppointment(body, User("uA"))
    \/ \E id \in AppointmentIds, body \in DeleteBodies : UpdateAppointment(id, body, User("uA"))
    \/ \E id \in AppointmentIds : CancelAppointment(id, "r", User("uA"))
    \/ \E id \in AppointmentIds, user \in Users : DeleteAppointment(id, user)
    \/ FetchSlots("d1", 1, defaultDurationMinutes)

SpecDelete == Init /\ [][NextDelete]_vars

(* the stored appointments with entry id taken out *)
Without(store, id) == SubSeq(store, 1, id - 1) \o SubSeq(store, id + 1, Len(store))

(***************************************************************************)
(* C28: a deleted appointment does not count: every availability check and *)
(* every slot listing gives the result it gives with that appointment      *)
(* taken out of the store; every update and cancel on it, by any caller    *)
(* and with any body, and every delete on it by an Admin, answers 404 and  *)
(* changes nothing; a delete by a caller who is not an Admin answers 403   *)
(* and changes nothing; a step never changes a deleted appointment, and    *)
(* only a successful delete of it makes an appointment deleted.            *)
(***************************************************************************)
C28_DeletedIsGone ==
    /\ [](\A id \in Stored :
            appointments[id].isDeleted
            => /\ \A doctorId \in DoctorProfiles, t \in ProbeTimes, d \in ProbeDurations :
                    checkDoctorAvailability(appointments, weeklySchedule, doctorId, t, d, Undefined)
                    = checkDoctorAvailability(Without(appointments, id), weeklySchedule,
                                              doctorId, t, d, Undefined)
               /\ \A doctorId \in DoctorProfiles, dateDay \in Dates, d \in ProbeDurations :
                    fetchDoctorAvailabilitySlots(appointments, weeklySchedule, doctorId, dateDay, d)
                    = fetchDoctorAvailabilitySlots(Without(appointments, id), weeklySchedule,
                                                   doctorId, dateDay, d)
               /\ \A user \in Users :
                    /\ \A body \in DeleteServiceBodies :
                            updateAppointmentService(appointments, weeklySchedule, now, id, body, user)
                            = <<404, appointments>>
                    /\ \A body \in DeleteBodies :
                            updateAppointmentRoute(appointments, weeklySchedule, now, id, body, user)
                            = <<404, appointments>>
                    /\ cancelAppointmentRoute(appointments, id, "r", user) = <<404, appointments>>
                    /\ user.role = ADMIN
                        => deleteAppointmentService(appointments, id, user) = <<404, appointments>>)
    /\ [](\A id \in AppointmentIds, user \in Users :
            user.role # ADMIN => deleteAppointmentService(appointments, id, user) = <<403, appointments>>)
    /\ [][ \A id \in Stored :
            /\ appointments[id].isDeleted => appointments'[id] = appointments[id]
            /\ (appointments'[id].isDeleted /\ ~appointments[id].isDeleted)
                => (last'.op = "delete" /\ last'.code = 200 /\ last'.id = id) ]_vars

(* a Confirmed appointment of d1 on Monday 10:00 is deleted and the        *)
(* listing just returned offers 10:00                                      *)
C28_Witness ==
    /\ last.op = "slots" /\ last.code = 200 /\ last.doctor = "d1"
    /\ \E i \in 1..Len(last.slots) : last.slots[i] = formatToHHMM(At(1, 10, 0))
    /\ \E id \in Stored :
            /\ appointments[id].isDeleted
            /\ appointments[id].status = CONFIRMED
            /\ appointments[id].doctor = "d1"
            /\ appointments[id].appointmentTime = At(1, 10, 0)

(***************************************************************************)
(* Specification of listing and booking: the administrator books doctor d1 *)
(* on Monday at 10:00 and 10:30 and cancels, the clock advances from       *)
(* Monday 08:00 to 10:10, and the free slots of a doctor on Monday are     *)
(* listed for 30 or 60 minutes.                                            *)
(***************************************************************************)
ListedCreateBodies ==
    [patient : {"p2"}, doctor : {"d1"},
     appointmentTime : {At(1, 10, 0), At(1, 10, 30)}, durationMinutes : {Undefined}]

ListedDurations == {30, 60}

NextListed ==
    \/ \E body \in ListedCreateBodies : CreateAppointment(body, User("uA"))
    \/ \E id \in AppointmentIds : CancelAppointment(id, "r", User("uA"))
    \/ \E doctorId \in DoctorProfiles, d \in ListedDurations : FetchSlots(doctorId, 1, d)
    \/ Tick

SpecListed == Init /\ [][NextListed]_vars

(* the booking an administrator makes of listed slot k for patient p2 *)
BookListed(k) ==
    createAppointmentRoute(appointments, weeklySchedule, now,
                           [patient |-> "p2", doctor |-> last.doctor,
                            appointmentTime |-> StampInstant(last.date, last.slots[k]),
                            durationMinutes |-> last.duration],
                           User("uA"))

(***************************************************************************)
(* C29: while the appointments and the schedule are those of the listing,  *)
(* a booking by an administrator for the listed doctor at the listed date  *)
(* and stamp with the listed duration is answered 201, for every stamp of  *)
(* the listing.                                                            *)
(***************************************************************************)
C29_ListedSlotsCanBeBooked ==
    (last.op = "slots" /\ last.code = 200) =>
        \A k \in 1..Len(last.slots) : BookListed(k)[1] = 201

(***************************************************************************)
(* fetchDoctorAvailabilitySlots, one loop iteration per step.  The request *)
(* in progress is held in last with op "listing": the work blocks not yet  *)
(* finished (the current one first), currentSlotTime and blockEndTime of   *)
(* the current block, and the stamps pushed so far.  Each iteration awaits *)
(* a query, so bookings of other requests run between iterations.          *)
(***************************************************************************)
nextSlotTime_noAdvance(currentSlotTime) == currentSlotTime

(* currentSlotTime = new Date(currentSlotTime.getTime() + slotIncrement * 60000) *)
nextSlotTime(currentSlotTime) == currentSlotTime + slotIncrement

(* the locals at the top of the for loop over the remaining work blocks *)
ListingState(doctorId, dateDay, durationMinutes, workingSlots, pushed) ==
    [op |-> "listing", code |-> 0, id |-> 0, prev |-> Undefined,
     doctor |-> doctorId, date |-> dateDay, duration |-> durationMinutes,
     slots |-> <<>>, schedule |-> <<>>,
     blocks |-> workingSlots,
     currentSlotTime |-> IF workingSlots = <<>> THEN Undefined
                         ELSE dateDay * MinutesPerDay
                              + splitHours(Head(workingSlots).startTime) * 60
                              + splitMinutes(Head(workingSlots).startTime),
     blockEndTime |-> IF workingSlots = <<>> THEN Undefined
                      ELSE dateDay * MinutesPerDay
                           + splitHours(Head(workingSlots).endTime) * 60
                           + splitMinutes(Head(workingSlots).endTime),
     pushed |-> pushed]

SlotsBegin(doctorId, dateDay, durationMinutes) ==
    /\ last.op # "listing"
    /\ last' = IF doctorId \notin DoctorProfiles
               THEN [Response("slots", 404, 0, Undefined) EXCEPT
                        !.doctor = doctorId, !.date = dateDay, !.duration = durationMinutes]
               ELSE LET workingSlots ==
                            workingBlocksForDay(weeklySchedule[doctorId],
                                                getDay(dateDay * MinutesPerDay))
                    IN  IF Len(workingSlots) = 0
                        THEN [Response("slots", 200, 0, Undefined) EXCEPT
                                !.doctor = doctorId, !.date = dateDay,
                                !.duration = durationMinutes]
                        ELSE ListingState(doctorId, dateDay, durationMinutes, workingSlots, <<>>)
    /\ UNCHANGED <<appointments, weeklySchedule, now, pending>>

(* one test of the while condition: leave the block, or check one          *)
(* candidate and advance                                                   *)
SlotsStep ==
    /\ last.op = "listing"
    /\ last.blocks # <<>>
    /\ LET potentialSlotStart == last.currentSlotTime
           potentialSlotEnd == potentialSlotStart + last.duration
       IN  last' = IF ~(last.currentSlotTime < last.blockEndTime)
                      \/ potentialSlotEnd > last.blockEndTime
                   THEN ListingState(last.doctor, last.date, last.duration,
                                     Tail(last.blocks), last.pushed)
                   ELSE [last EXCEPT
                            !.currentSlotTime = nextSlotTime(last.currentSlotTime),
                            !.pushed = IF ~findConflicting(appointments, last.doctor,
                                                           potentialSlotStart, potentialSlotEnd,
                                                           Undefined)
                                       THEN Append(@, formatToHHMM(potentialSlotStart))
                                       ELSE @]
    /\ UNCHANGED <<appointments, weeklySchedule, now, pending>>

SlotsReturn ==
    /\ last.op = "listing"
    /\ last.blocks = <<>>
    /\ last' = [Response("slots", 200, 0, Undefined) EXCEPT
                    !.doctor = last.doctor, !.date = last.date, !.duration = last.duration,
                    !.slots = sortedUnique(last.pushed)]
    /\ UNCHANGED <<appointments, weeklySchedule, now, pending>>

(* a booking of another request that completes while the listing awaits;   *)
(* its response goes to that request                                       *)
BookWhileListing(body, user) ==
    /\ last.op = "listing"
    /\ \E r \in {createAppointmentRoute(appointments, weeklySchedule, now, body, user)} :
           /\ Len(r[2]) <= MaxAppointments
           /\ appointments' = r[2]
    /\ UNCHANGED <<weeklySchedule, now, last, pending>>

(***************************************************************************)
(* Specification of the listing loop: the administrator books doctor d1    *)
(* on Monday at 10:00 or 10:30, also while a listing is in progress;       *)
(* listings are requested for Monday and Tuesday with a duration of 30     *)
(* minutes or of 120 minutes, which is longer than every work block.       *)
(***************************************************************************)
LoopCreateBodies ==
    [patient : {"p2"}, doctor : {"d1"},
     appointmentTime : {At(1, 10, 0), At(1, 10, 30)}, durationMinutes : {Undefined}]

LoopDurations == {30, 120}

NextLoop ==
    \/ \E body \in LoopCreateBodies : last.op # "listing" /\ CreateAppointment(body, User("uA"))
    \/ \E body \in LoopCreateBodies : BookWhileListing(body, User("uA"))
    \/ \E doctorId \in DoctorProfiles \cup {"dX"}, dateDay \in Dates, d \in LoopDurations :
            SlotsBegin(doctorId, dateDay, d)
    \/ SlotsStep
    \/ SlotsReturn

SpecLoop == Init /\ [][NextLoop]_vars

(* a started listing is resumed whenever its awaited query has resolved *)
SpecLoopFair == SpecLoop /\ WF_vars(SlotsStep) /\ WF_vars(SlotsReturn)

(* start of the current work block of the listing in progress *)
ListingBlockStart ==
    last.date * MinutesPerDay + BlockStart(Head(last.blocks))

(***************************************************************************)
(* C30: every listing that has started returns; while it stays in a work   *)
(* block the candidate start was inside the block with room for the        *)
(* duration and moves forward by exactly 15 minutes, pushing at most the   *)
(* stamp of that candidate; it leaves a block, pushing nothing, exactly    *)
(* when the candidate has reached the block's end or candidate + duration  *)
(* exceeds it; the candidate never runs past the block's end, and every    *)
(* returned stamp lies in a block at least as long as the duration.        *)
(***************************************************************************)
C30_ListingTerminates ==
    /\ (last.op = "listing") ~> (last.op = "slots" /\ last.code = 200)
    /\ []((last.op = "listing" /\ last.blocks # <<>>)
            => /\ ListingBlockStart <= last.currentSlotTime
               /\ last.currentSlotTime <= last.blockEndTime
               /\ (last.currentSlotTime - ListingBlockStart) % 15 = 0
               /\ last.blockEndTime - ListingBlockStart < last.duration
                    => (last.currentSlotTime = ListingBlockStart))
    /\ []((last.op = "slots" /\ last.code = 200)
            => \A k \in 1..Len(last.slots) :
                    InsideWorkingBlock(weeklySchedule[last.doctor],
                                       StampInstant(last.date, last.slots[k]), last.duration))
    /\ [][ (last.op = "listing" /\ last.blocks # <<>> /\ last' # last /\ last'.op = "listing")
            => IF last'.blocks = last.blocks
               THEN /\ last.currentSlotTime < last.blockEndTime
                    /\ last.currentSlotTime + last.duration <= last.blockEndTime
                    /\ last'.currentSlotTime = last.currentSlotTime + 15
                    /\ last'.pushed \in {last.pushed,
                                         Append(last.pushed, formatToHHMM(last.currentSlotTime))}
               ELSE /\ \/ last.currentSlotTime >= last.blockEndTime
                       \/ last.currentSlotTime + last.duration > last.blockEndTime
                    /\ last'.blocks = Tail(last.blocks)
                    /\ last'.pushed = last.pushed ]_vars

(* a listing for d1 on Monday with a duration longer than both of d1's     *)
(* Monday blocks has gone through the loop and returned no slot            *)
C30_Witness ==
    /\ last.op = "slots" /\ last.code = 200
    /\ last.doctor = "d1" /\ last.date = 1
    /\ last.duration = 120
    /\ last.slots = <<>>
    /\ Len(workingBlocksForDay(weeklySchedule["d1"], 1)) = 2
    /\ appointments # <<>>

====
